---- MODULE Spec2Model ----
(***************************************************************************)
(* Model of the itinerary generation pipeline of ai-itinerary-backend:     *)
(* services/openai_service.py (normalize_candidate_for_response,           *)
(* generate_itinerary), models.py (ItineraryResponse, DayPlan, Activity)   *)
(* and services/budget_annotator.py.                                       *)
(*                                                                         *)
(* Dates are day ordinals (an integer per calendar day), so "one calendar  *)
(* day later" is +1.  An ISO date string is the JSON value JIso(d); any    *)
(* other string is JStr(s).  date.isoformat() builds a JIso, and           *)
(* date.fromisoformat() is defined on JIso values only.                    *)
(***************************************************************************)
EXTENDS Integers, Sequences, FiniteSets, TLC

(***************************************************************************)
(* Bounds of the model.                                                    *)
(***************************************************************************)
\* longest trip a request asks for (duration_days, or end_date - start_date + 1)
MaxDays == 3
\* longest day list a model response carries
MaxPlanLen == 2
\* largest total_days value a model response reports
MaxTotal == 3
\* times of day are 0..MaxTime
MaxTime == 3
\* longest tips list of an activity handed to validation
MaxTips == 2

(***************************************************************************)
(* Decoded JSON values, as json.loads returns them.  k is the Python type  *)
(* of the value ("absent" stands for a key the object does not have).      *)
(***************************************************************************)
JAbsent == [k |-> "absent", v |-> 0, s |-> ""]
JNull == [k |-> "null", v |-> 0, s |-> ""]
JInt(n) == [k |-> "int", v |-> n, s |-> ""]
\* a JSON number with decimals, given in hundredths: JNum(1985) is 19.85
JNum(c) == [k |-> "num", v |-> c, s |-> ""]
JStr(str) == [k |-> "str", v |-> 0, s |-> str]
JIso(d) == [k |-> "iso", v |-> d, s |-> ""]
\* a JSON object used as a field value; s names its content
JObj(name) == [k |-> "dict", v |-> 0, s |-> name]
\* a JSON array used as a field value; s names its content
JList(name) == [k |-> "list", v |-> 0, s |-> name]

\* dict.get(key): None for a missing key
Get(x) == IF x.k = "absent" THEN JNull ELSE x

\* Python truthiness of a decoded value
Truthy(x) ==
    CASE x.k = "absent" -> FALSE
      [] x.k = "null" -> FALSE
      [] x.k \in {"int", "num"} -> x.v # 0
      [] x.k = "str" -> x.s # ""
      [] x.k = "dict" -> x.s # "{}"
      [] OTHER -> TRUE

\* Python's `a or b`
PyOr(a, b) == IF Truthy(a) THEN a ELSE b

\* date.isoformat()
isoformat(d) == JIso(d)

\* date.fromisoformat(x) raises unless x is an ISO date string
CanParseDate(x) == x.k = "iso"
fromisoformat(x) == x.v

(***************************************************************************)
(* The request (models.ItineraryRequest), already validated.               *)
(***************************************************************************)
Requests ==
    [ destination : {"lisbon"},
      start_date : {152},
      days : 1..MaxDays,
      home_currency : {"", "GBP"},
      max_daily_budget : {0, 150} ]

\* services/openai_service.py:322
expected_end(req) == req.start_date + (req.days - 1)

(***************************************************************************)
(* What the provider call gives back: an exception, text that json.loads   *)
(* rejects, or a decoded JSON value.                                       *)
(***************************************************************************)
NoActivities == <<>>

\* a cost value of an activity: a missing key, null, a string, or an object with
\* the keys MoneyEstimate knows (each missing, null or set)
CostValue(k, currency, amount, amount_min, amount_max, notes) ==
    [ k |-> k, currency |-> currency, amount |-> amount, amount_min |-> amount_min,
      amount_max |-> amount_max, notes |-> notes ]

CostAbsent == CostValue("absent", JAbsent, JAbsent, JAbsent, JAbsent, JAbsent)
CostNull == CostValue("null", JAbsent, JAbsent, JAbsent, JAbsent, JAbsent)

\* an activity of the model's day: its title, category, tags, tips and its two
\* cost keys
RawActivity(title) ==
    [ title |-> title, category |-> JAbsent, tags |-> JAbsent, tips |-> JAbsent,
      estimated_cost |-> CostAbsent, cost |-> CostAbsent ]

\* entries of the model's day list; a missing activities or notes key is the
\* empty sequence (both read as [] by `day.get(...) or []`)
DayEntries ==
    { \* not an object
      [isdict |-> FALSE, day_index |-> JAbsent, date |-> JAbsent, summary |-> JAbsent, weather |-> JAbsent,
       activities |-> NoActivities, notes |-> <<>>],
      \* {}
      [isdict |-> TRUE, day_index |-> JAbsent, date |-> JAbsent, summary |-> JAbsent, weather |-> JAbsent,
       activities |-> NoActivities, notes |-> <<>>],
      \* a filled day that carries its own day_index and date
      [isdict |-> TRUE, day_index |-> JInt(7), date |-> JIso(160), summary |-> JStr("Old town"),
       weather |-> JAbsent, activities |-> << RawActivity(JStr("Belem Tower")) >>, notes |-> << "Bring water" >>],
      \* a day with a day_index below 1 and an activity without title
      [isdict |-> TRUE, day_index |-> JInt(-1), date |-> JAbsent, summary |-> JAbsent, weather |-> JAbsent,
       activities |-> << RawActivity(JAbsent) >>, notes |-> <<>>] }

Plans == UNION { [1..n -> DayEntries] : n \in 0..MaxPlanLen }

DailyPlanValues ==
    { [k |-> "absent", items |-> <<>>], [k |-> "str", items |-> <<>>] }
    \cup { [k |-> "list", items |-> p] : p \in Plans }

ResponseKinds == {"provider_error", "undecodable", "dict", "list", "null"}

\* keys that _unwrap_root takes for a wrapper (services/openai_service.py:206)
WrapperKeys == {"itinerary", "plan", "data", "result"}

\* A response [wrapper |-> << w >>, ...] is the single-key object {w: value}, the
\* other fields describing the value; << w1, w2 >> is {w1: {w2: value}}; with the
\* empty wrapper it is the value itself.
BlankResponse(kind) ==
    [ kind |-> kind, wrapper |-> <<>>, destination |-> JAbsent, start_date |-> JAbsent, end_date |-> JAbsent,
      total_days |-> JAbsent, currency |-> JAbsent,
      daily_plan |-> [k |-> "absent", items |-> <<>>],
      itinerary |-> [k |-> "absent", items |-> <<>>], meta |-> JAbsent ]

ObjectResponses ==
    [ kind : {"dict"},
      wrapper : { <<>> },
      destination : {JAbsent, JInt(42)},
      start_date : {JAbsent, JIso(160), JStr("soon")},
      end_date : {JAbsent, JIso(153)},
      total_days : {JAbsent, JNull} \cup { JInt(n) : n \in 0..MaxTotal },
      currency : {JAbsent, JStr("EUR")},
      daily_plan : DailyPlanValues,
      itinerary : { [k |-> "absent", items |-> <<>>] },
      meta : {JAbsent, JObj("bad")} ]

\* the values that also come wrapped in a single-key object
Wrappable ==
    { r \in ObjectResponses : /\ r.destination = JAbsent /\ r.end_date = JAbsent
                              /\ r.meta = JAbsent /\ r.daily_plan.k = "absent" }
    \cup { BlankResponse("list") }

WrappedResponses ==
    { [r EXCEPT !.wrapper = << w >>] : r \in Wrappable, w \in WrapperKeys \cup {"response"} }

Responses ==
    ObjectResponses \cup { BlankResponse(kd) : kd \in ResponseKinds \ {"dict"} }
    \cup WrappedResponses

NoResponse == BlankResponse("none")

(***************************************************************************)
(* normalize_candidate_for_response and its helpers.                       *)
(***************************************************************************)
_unwrap_root_Keeps(raw) == raw

\* the keys of a decoded object
PresentKeys(raw) ==
    { key \in {"destination", "start_date", "end_date", "total_days", "currency", "meta",
               "daily_plan", "itinerary"} : raw[key].k # "absent" }

\* services/openai_service.py:203-208  a single-key object under a wrapper key is
\* replaced by the value of that key; the entries of a list value are dropped
\* here, the normalizer reads no entry of a candidate that is a list
_unwrap_root(raw) ==
    IF raw.wrapper # <<>> /\ Head(raw.wrapper) \in WrapperKeys
    THEN [raw EXCEPT !.wrapper = Tail(raw.wrapper)]
    ELSE IF raw.wrapper = <<>> /\ raw.kind = "dict" /\ PresentKeys(raw) = {"itinerary"}
    THEN BlankResponse(raw.itinerary.k)
    ELSE raw

\* isinstance(candidate, dict)
IsDict(candidate) == candidate.wrapper # <<>> \/ candidate.kind = "dict"

\* the keys the normalizer reads: an object still wrapped by some other key has
\* none of them at its top level
TopLevel(candidate) ==
    IF candidate.wrapper # <<>>
    THEN [BlankResponse("dict") EXCEPT !.wrapper = candidate.wrapper]
    ELSE candidate

\* services/calendar_service.py:208  `(destination or "").strip()` raises
\* AttributeError on a truthy value that is not a string
guess_country_code_raises(destination) == Truthy(destination) /\ destination.k # "str"

guess_country_code(destination) ==
    CASE destination.s = "lisbon" -> "PT"
      [] destination.s = "london" -> "GB"
      [] OTHER -> ""

\* services/openai_service.py:343-390
CC_TO_CURRENCY(cc) ==
    CASE cc = "PT" -> "EUR"
      [] cc = "GB" -> "GBP"
      [] OTHER -> "USD"

\* services/openai_service.py:164-177
_normalize_cost_dict(obj, default_currency) ==
    IF obj.k \in {"absent", "null"} THEN CostNull
    ELSE IF obj.k # "dict" THEN CostNull
    ELSE IF obj.amount.k # "absent"
    THEN CostValue("dict", PyOr(Get(obj.currency), JStr(default_currency)), JAbsent,
                   Get(obj.amount), Get(obj.amount), Get(obj.notes))
    ELSE CostValue("dict", PyOr(Get(obj.currency), JStr(default_currency)), JAbsent,
                   Get(obj.amount_min), Get(obj.amount_max), Get(obj.notes))

\* services/openai_service.py:196-199  raw_cost is what estimated_cost held; the
\* legacy key is popped only when that is None
SanitizeCost(a, default_currency) ==
    LET popped == Get(a.estimated_cost)
        legacy == popped.k = "null" /\ a.cost.k # "absent"
        raw_cost == IF legacy THEN a.cost ELSE popped
    IN  [ a EXCEPT !.estimated_cost = _normalize_cost_dict(raw_cost, default_currency),
                   !.cost = IF legacy THEN CostAbsent ELSE a.cost ]

\* services/openai_service.py:186-191  setdefault fills a missing category only;
\* tags and tips become [] when missing or null
SanitizeDefaults(a) ==
    [ a EXCEPT !.category = IF a.category.k = "absent" THEN JStr("sightseeing")
                            ELSE a.category,
               !.tags = IF Get(a.tags).k = "null" THEN JList("[]") ELSE a.tags,
               !.tips = IF Get(a.tips).k = "null" THEN JList("[]") ELSE a.tips ]

\* services/openai_service.py:179-201  activities without a title key are dropped
_sanitize_activities(activities, default_currency) ==
    LET titled == SelectSeq(activities, LAMBDA a : a.title.k # "absent")
    IN  [ n \in 1..Len(titled) |->
            SanitizeCost(SanitizeDefaults(titled[n]), default_currency) ]

\* services/openai_service.py:397-409  one day of the response at 0-based position i
CleanDay(day, i, start_iso, local_currency) ==
    [ day_index |-> PyOr(Get(day.day_index), JInt(i + 1)),
      date |-> IF Truthy(Get(day.date)) THEN day.date
               ELSE IF CanParseDate(start_iso) THEN isoformat(fromisoformat(start_iso) + i)
               ELSE start_iso,
      summary |-> Get(day.summary),
      weather |-> Get(day.weather),
      activities |-> _sanitize_activities(day.activities, local_currency),
      notes |-> day.notes ]

\* services/openai_service.py:393-409  entries that are not objects are skipped;
\* the others keep their position i in the model's list
CleanDays(daily_plan, start_iso, local_currency) ==
    LET indexed == [ i \in 1..Len(daily_plan) |-> [pos |-> i, day |-> daily_plan[i]] ]
        kept == SelectSeq(indexed, LAMBDA e : e.day.isdict)
    IN  [ j \in 1..Len(kept) |-> CleanDay(kept[j].day, kept[j].pos - 1, start_iso, local_currency) ]

\* month of a day ordinal (ordinals count the days of 2025: 1 June is 152, 1 July is 182)
MonthOf(d) == IF d < 182 THEN 6 ELSE 7

\* the climate maps a request may come with: none, or normals for June
ClimateMaps == { {}, {6} }

WeatherTip == "Weather tip (month): averages"

\* `n.lower().startswith("weather tip")`
IsWeatherTip(n) == n \in { WeatherTip, "weather tip: sunny" }

\* services/openai_service.py:287-300  the weather dict after the setdefault calls:
\* the keys the model gave are kept, the missing ones get the seasonal values
FillWeather(w) ==
    CASE w.k # "dict" -> JObj("seasonal")
      [] w.s \in {"{}", "seasonal"} -> JObj("seasonal")
      [] w.s = "summary only" -> JObj("summary and seasonal")
      [] OTHER -> w

\* services/openai_service.py:278-318  one day of _inject_weather
InjectWeatherDay(d, climate_monthly) ==
    IF ~CanParseDate(d.date) \/ MonthOf(fromisoformat(d.date)) \notin climate_monthly
    THEN d
    ELSE [ d EXCEPT
             !.weather = FillWeather(d.weather),
             !.notes = IF \E n \in 1..Len(d.notes) : IsWeatherTip(d.notes[n])
                       THEN d.notes ELSE Append(d.notes, WeatherTip) ]

\* services/openai_service.py:271-318
_inject_weather(days, climate_monthly) ==
    IF climate_monthly = {}
    THEN days
    ELSE [ n \in 1..Len(days) |-> InjectWeatherDay(days[n], climate_monthly) ]

\* services/openai_service.py:417-425
NormalizedTotalDays(candidate, start_iso, end_iso, clean_days) ==
    IF IsDict(candidate) /\ candidate.total_days.k # "absent"
    THEN candidate.total_days
    ELSE IF CanParseDate(start_iso) /\ CanParseDate(end_iso)
         THEN JInt(fromisoformat(end_iso) - fromisoformat(start_iso) + 1)
         ELSE JInt(IF Len(clean_days) > 1 THEN Len(clean_days) ELSE 1)

\* services/openai_service.py:429,436  `default_currency` is no name in scope
\* there: evaluating it raises NameError
CurrencyRaises(candidate) ==
    IF IsDict(candidate) THEN ~Truthy(Get(candidate.currency)) ELSE TRUE

DefaultMeta == JObj("default")

NoDict == <<>>

\* services/openai_service.py:320-445  the dict returned, or the exception raised
normalize_candidate_for_response(req, raw, climate_monthly) ==
    LET candidate == TopLevel(_unwrap_root(raw))
        destination == IF IsDict(candidate)
                       THEN PyOr(Get(candidate.destination), JStr(req.destination))
                       ELSE JStr(req.destination)
        start_iso == IF IsDict(candidate)
                     THEN PyOr(Get(candidate.start_date), isoformat(req.start_date))
                     ELSE isoformat(req.start_date)
        end_iso == IF IsDict(candidate)
                   THEN PyOr(Get(candidate.end_date), isoformat(expected_end(req)))
                   ELSE isoformat(expected_end(req))
        daily_plan == IF IsDict(candidate) /\ candidate.daily_plan.k = "list"
                      THEN candidate.daily_plan.items
                      ELSE IF IsDict(candidate) /\ candidate.itinerary.k = "list"
                      THEN candidate.itinerary.items
                      ELSE <<>>
        local_currency == CC_TO_CURRENCY(guess_country_code(destination))
        clean_days == _inject_weather(CleanDays(daily_plan, start_iso, local_currency),
                                      climate_monthly)
        out == [ destination |-> destination,
                 start_date |-> start_iso,
                 end_date |-> end_iso,
                 daily_plan |-> clean_days,
                 total_days |-> NormalizedTotalDays(candidate, start_iso, end_iso, clean_days),
                 currency |-> candidate.currency,
                 meta |-> PyOr(Get(candidate.meta), DefaultMeta) ]
    IN  IF guess_country_code_raises(destination)
        THEN [raised |-> "AttributeError", out |-> NoDict]
        ELSE IF CurrencyRaises(candidate)
        THEN [raised |-> "NameError", out |-> NoDict]
        ELSE [raised |-> "", out |-> << out >>]

(***************************************************************************)
(* Validation into the data model (models.py).                             *)
(***************************************************************************)
\* models.py:231-235  Meta forbids unknown keys
MetaValid(meta) == meta.k = "dict" /\ meta.s = "default"

\* models.py:24-30  MoneyEstimate: a currency string and bounds that are null or
\* numbers >= 0; no other key
MoneyEstimateValid(c) ==
    /\ c.currency.k \in {"absent", "str"}
    /\ c.amount.k = "absent"
    /\ \A b \in {c.amount_min, c.amount_max} : b.k \in {"absent", "null"} \/ (b.k = "int" /\ b.v >= 0)
    /\ c.notes.k \in {"absent", "null", "str"}

\* models.py:143-147
Categories ==
    { "sightseeing", "museum", "landmark", "food", "coffee", "bar", "nightlife",
      "shopping", "nature", "beach", "hike", "experience", "transport", "hotel", "break" }

\* models.py:139-168  the title is the one required field of an Activity; the cost
\* is read from estimated_cost; null tags and tips are read as []
ActivityValid(a) ==
    /\ a.title.k = "str"
    /\ a.category.k = "absent" \/ (a.category.k = "str" /\ a.category.s \in Categories)
    /\ a.tags.k \in {"absent", "null", "list"}
    /\ a.tips.k \in {"absent", "null", "list"}
    /\ a.estimated_cost.k \in {"absent", "null"}
         \/ (a.estimated_cost.k = "dict" /\ MoneyEstimateValid(a.estimated_cost))

NoMoney == <<>>

\* None, or the number
Bound(b) == IF b.k = "int" THEN << b.v >> ELSE <<>>

\* models.py:24-30  the typed MoneyEstimate, or None
MoneyEstimate(c) ==
    IF c.k # "dict" THEN NoMoney
    ELSE << [ currency |-> c.currency.s, amount_min |-> Bound(c.amount_min),
              amount_max |-> Bound(c.amount_max) ] >>

\* models.py:202-210
DayPlanValid(d) ==
    /\ d.day_index.k = "int" /\ d.day_index.v >= 1
    /\ CanParseDate(d.date)
    /\ d.summary.k \in {"null", "str"}
    /\ d.weather.k \in {"null", "dict"}
    /\ \A n \in 1..Len(d.activities) : ActivityValid(d.activities[n])

\* models.py:237-264
ItineraryResponseValid(c) ==
    /\ c.destination.k = "str"
    /\ CanParseDate(c.start_date)
    /\ CanParseDate(c.end_date)
    /\ c.total_days.k = "int" /\ c.total_days.v >= 1
    /\ c.currency.k = "str"
    /\ MetaValid(c.meta)
    /\ \A n \in 1..Len(c.daily_plan) : DayPlanValid(c.daily_plan[n])

\* models.py:202-210  the typed DayPlan
DayPlan(day_index, date, summary, activities, notes) ==
    [ day_index |-> day_index, date |-> date, summary |-> summary, weather |-> JNull,
      activities |-> activities, notes |-> notes ]

\* models.py:237-264  ItineraryResponse.model_validate on a dict that validates
model_validate(c) ==
    [ destination |-> c.destination.s,
      start_date |-> fromisoformat(c.start_date),
      end_date |-> fromisoformat(c.end_date),
      total_days |-> c.total_days.v,
      currency |-> c.currency.s,
      daily_plan |-> [ n \in 1..Len(c.daily_plan) |->
                         [ DayPlan(c.daily_plan[n].day_index.v,
                                   fromisoformat(c.daily_plan[n].date),
                                   c.daily_plan[n].summary,
                                   [ m \in 1..Len(c.daily_plan[n].activities) |->
                                       [ title |-> c.daily_plan[n].activities[m].title.s,
                                         estimated_cost |->
                                             MoneyEstimate(c.daily_plan[n].activities[m].estimated_cost) ] ],
                                   c.daily_plan[n].notes)
                           EXCEPT !.weather = c.daily_plan[n].weather ] ],
      generated_at_iso |-> "" ]

\* services/openai_service.py:514-516  the generation timestamp is stamped
StampMeta(it) == [it EXCEPT !.generated_at_iso = "now"]

(***************************************************************************)
(* Day reconciliation (services/openai_service.py:518-524 and 587-593).    *)
(***************************************************************************)
\* the days appended when the list is short: i ranges over range(desired - current)
Pads(it, desired, current) ==
    [ n \in 1..(desired - current) |->
        DayPlan((n - 1) + 1 + current, it.start_date + (current + (n - 1)),
                JNull, NoActivities, <<>>) ]

ReconcileDays_NoTruncate(it) ==
    LET desired == it.total_days
        current == Len(it.daily_plan)
    IN  IF current < desired
        THEN [it EXCEPT !.daily_plan = it.daily_plan \o Pads(it, desired, current)]
        ELSE it

ReconcileDays(it) ==
    LET desired == it.total_days
        current == Len(it.daily_plan)
    IN  IF current < desired
        THEN [it EXCEPT !.daily_plan = it.daily_plan \o Pads(it, desired, current)]
        ELSE IF current > desired
        THEN [it EXCEPT !.daily_plan = SubSeq(it.daily_plan, 1, desired)]
        ELSE it

(***************************************************************************)
(* Budget annotation (services/budget_annotator.py).                       *)
(***************************************************************************)
\* Money is counted in hundredths of a currency unit and a rate in thousandths,
\* so 0.85 is 850 and Decimal("1") is 1000.

\* what the rate provider does for one lookup: an HTTP error, a timeout, a reply
\* whose rates lack the quote currency, or a reply with the rate
RateProviders ==
    { [kind |-> kd, rate |-> 0] : kd \in {"http_error", "timeout", "no_quote"} }
    \cup { [kind |-> "rates", rate |-> r] : r \in {850, 855} }

\* services/currency_service.py:39-84
_fetch_rate(base, quote, provider) ==
    IF base = quote THEN 1000
    ELSE IF provider.kind = "rates" THEN provider.rate
    ELSE 1000

\* services/currency_service.py:33-37
get_rate(base, quote, provider) == _fetch_rate(base, quote, provider)

\* services/currency_service.py:86-89  (amount * rate) to two places, ROUND_HALF_UP
convert(amount, base, quote, provider) ==
    (amount * get_rate(base, quote, provider) + 500) \div 1000

\* services/budget_annotator.py:8-16
_pick_amount(me) ==
    IF me = NoMoney THEN <<>>
    ELSE IF me[1].amount_max # <<>> THEN me[1].amount_max
    ELSE me[1].amount_min

\* services/budget_annotator.py:18-24  (no activity of the model carries booking info)
_activity_total_local(act) ==
    LET amt == _pick_amount(act.estimated_cost)
    IN  IF amt # <<>> THEN 100 * amt[1] ELSE 0

RECURSIVE LocalSum(_)
\* services/budget_annotator.py:66-71
LocalSum(activities) ==
    IF activities = <<>> THEN 0
    ELSE _activity_total_local(Head(activities)) + LocalSum(Tail(activities))

\* Decimal.quantize(Decimal('0')) of num / den under the default context
\* (ROUND_HALF_EVEN)
QuantizeHalfEven(num, den) ==
    LET q == num \div den
        r == num % den
    IN  IF 2 * r > den \/ (2 * r = den /\ q % 2 = 1) THEN q + 1 ELSE q

Abs(x) == IF x < 0 THEN 0 - x ELSE x

BudgetStatus_Strict(diff) == IF diff > 0 THEN "UNDER" ELSE "OVER"

\* services/budget_annotator.py:104
BudgetStatus(diff) == IF diff >= 0 THEN "UNDER" ELSE "OVER"

\* services/budget_annotator.py:64-111  what the budget line of one day says
BudgetLineOf(day, local_ccy, home_ccy, max_daily_budget, provider) ==
    LET local_sum == LocalSum(day.activities)
        home_sum == IF local_ccy = home_ccy THEN local_sum
                    ELSE convert(local_sum, local_ccy, home_ccy, provider)
        cap == 100 * max_daily_budget
        diff == cap - home_sum
    IN  [ home_sum |-> home_sum, cap |-> max_daily_budget, status |-> BudgetStatus(diff),
          pct |-> IF cap > 0 THEN QuantizeHalfEven(Abs(diff) * 100, cap) ELSE 0 ]

BudgetLine == "Budget (home): total / cap"

\* the note text of a budget line (its numbers are not spelled out in the text)
BudgetNote(line) ==
    IF line.status = "UNDER" THEN BudgetLine ELSE "Budget (home): total / cap - OVER"

\* services/budget_annotator.py:64-121  the days up to `upto` get their line
AnnotateDays(it, home_currency, max_daily_budget, provider, upto) ==
    [ it EXCEPT !.daily_plan =
        [ n \in 1..Len(it.daily_plan) |->
            IF n <= upto
            THEN [ it.daily_plan[n] EXCEPT !.notes =
                     << BudgetNote(BudgetLineOf(it.daily_plan[n], it.currency, home_currency,
                                                max_daily_budget.v, provider)) >>
                     \o it.daily_plan[n].notes ]
            ELSE it.daily_plan[n] ] ]

\* services/budget_annotator.py:26-127  home_currency "" is None; max_daily_budget
\* is JNull or an integer.  `fault` is the day at which something raises (0, or a
\* day past the last one: nothing raises); the days before it are annotated
\* already, in place, when the exception leaves the function.
annotate_budget(it, home_currency, max_daily_budget, provider, fault) ==
    IF home_currency = "" \/ ~Truthy(max_daily_budget)
    THEN [raised |-> FALSE, it |-> it]
    ELSE IF fault \in 1..Len(it.daily_plan)
    THEN [raised |-> TRUE,
          it |-> AnnotateDays(it, home_currency, max_daily_budget, provider, fault - 1)]
    ELSE [raised |-> FALSE,
          it |-> AnnotateDays(it, home_currency, max_daily_budget, provider,
                              Len(it.daily_plan))]

StrictBudget_Skips(req, it, provider, fault) == [raised |-> FALSE, it |-> it]

\* services/openai_service.py:538-555  the strict path tests the request itself
StrictBudget(req, it, provider, fault) ==
    IF req.home_currency # "" /\ req.max_daily_budget # 0
    THEN annotate_budget(it, req.home_currency, JInt(req.max_daily_budget), provider, fault)
    ELSE [raised |-> FALSE, it |-> it]

\* services/openai_service.py:605-614  the fallback path always calls the annotator
FallbackBudget(req, it, provider, fault) ==
    annotate_budget(it, req.home_currency, JInt(req.max_daily_budget), provider, fault)

(***************************************************************************)
(* generate_itinerary (services/openai_service.py:447-621) as a state      *)
(* machine for one request.                                                *)
(***************************************************************************)
VARIABLES
    req,              \* the request
    climate_monthly,  \* the climate map handed in with it
    api_key,          \* settings.OPENAI_API_KEY is set
    pc,               \* where generate_itinerary is
    calls,            \* the provider calls made so far, by response_format
    in_flight,        \* provider calls started and not yet returned
    raw,              \* what the last provider call gave back
    normalized,       \* outcome of normalize_candidate_for_response on it
    validated,        \* the itinerary as validated (lines 512 and 581)
    reconciled,       \* the itinerary after day reconciliation (lines 524 and 593)
    strict_exc,       \* the exception bound at line 560 while its handler runs, else ""
    returned,         \* the itinerary generate_itinerary returned
    raised,           \* the HTTPExceptions generate_itinerary raised (status codes)
    budget_raised,    \* annotate_budget raised an exception in this run
    activity,         \* an Activity being validated (models.Activity)
    activity_out,     \* the validated Activity
    activity_pc,
    fn_in,            \* the arguments of a helper function under test
    fn_out,           \* what it returned
    fn_pc,
    jobs,             \* JobManager._jobs: the Job objects by id
    runner_pc,        \* where each job's runner thread is
    lock,             \* JobManager._lock: << >> when free, else the job whose runner holds it
    pool,             \* JobManager._pool: free permits of the semaphore
    observed          \* what JobManager.get last handed to a reader

vars == << req, climate_monthly, api_key, pc, calls, in_flight, raw, normalized, validated,
           reconciled, strict_exc, returned, raised, budget_raised, activity, activity_out,
           activity_pc,
           fn_in, fn_out, fn_pc, jobs, runner_pc, lock, pool, observed >>

pipeline_vars == << req, climate_monthly, api_key, pc, calls, in_flight, raw, normalized,
                    validated, reconciled, strict_exc, returned, raised, budget_raised >>

activity_vars == << activity, activity_out, activity_pc >>

fn_vars == << fn_in, fn_out, fn_pc >>

job_vars == << jobs, runner_pc, lock, pool, observed >>

NoItinerary == <<>>
NotNormalized == [raised |-> "", out |-> NoDict]

\* services/openai_service.py:508-558 and 578-616  everything the try block does
\* with what the provider call gave back, up to and without budget annotation
Attempt(request, response, climate) ==
    LET norm == normalize_candidate_for_response(request, response, climate)
        valid == norm.raised = "" /\ ItineraryResponseValid(norm.out[1])
        it == StampMeta(model_validate(norm.out[1]))
    IN  IF response.kind = "provider_error"
        THEN [exc |-> "APIError", norm |-> NotNormalized, validated |-> NoItinerary,
              reconciled |-> NoItinerary]
        ELSE IF response.kind = "undecodable"
        THEN [exc |-> "JSONDecodeError", norm |-> NotNormalized, validated |-> NoItinerary,
              reconciled |-> NoItinerary]
        ELSE IF norm.raised # ""
        THEN [exc |-> norm.raised, norm |-> norm, validated |-> NoItinerary,
              reconciled |-> NoItinerary]
        ELSE IF ~valid
        THEN [exc |-> "ValidationError", norm |-> norm, validated |-> NoItinerary,
              reconciled |-> NoItinerary]
        ELSE [exc |-> "", norm |-> norm, validated |-> << it >>,
              reconciled |-> << ReconcileDays(it) >>]

PipelineInit ==
    /\ req \in Requests
    /\ climate_monthly \in ClimateMaps
    /\ api_key \in BOOLEAN
    /\ pc = "entry"
    /\ calls = <<>>
    /\ in_flight = 0
    /\ raw = NoResponse
    /\ normalized = NotNormalized
    /\ validated = NoItinerary
    /\ reconciled = NoItinerary
    /\ strict_exc = ""
    /\ returned = NoItinerary
    /\ raised = <<>>
    /\ budget_raised = FALSE

\* the day at which annotate_budget fails: 0 for no failure
BudgetFaults == 0..2

\* what the annotator meets in one run: the rate provider's behaviour and the
\* fault.  A request without home currency or cap never reaches either
\* (services/budget_annotator.py:48-53).
BudgetEnvironments(request) ==
    IF request.home_currency # "" /\ request.max_daily_budget # 0
    THEN [ provider : { pr \in RateProviders : pr.kind = "timeout" \/ pr.rate = 850 },
           fault : BudgetFaults ]
    ELSE [ provider : { pr \in RateProviders : pr.kind = "timeout" }, fault : {0} ]

BudgetExcept_Escapes(path) == IF path = "strict" THEN "strict_failed" ELSE "raised"

\* services/openai_service.py:551-553 and 613-614  where a path goes when
\* annotate_budget raised: its handler logs, and `return itinerary` follows
BudgetExcept(path) == "returned"

\* services/openai_service.py:454  `if not settings.OPENAI_API_KEY`
KeyMissing_Ignored(key) == FALSE

KeyMissing(key) == ~key

\* services/openai_service.py:454-455
ConfigError ==
    /\ pc = "entry"
    /\ KeyMissing(api_key)
    /\ pc' = "raised"
    /\ raised' = Append(raised, 500)
    /\ UNCHANGED << req, climate_monthly, api_key, calls, in_flight, raw, normalized,
                    validated, reconciled, strict_exc, returned, budget_raised >>
    /\ UNCHANGED << activity_vars, fn_vars, job_vars >>

\* services/openai_service.py:496-506  the structured call starts
CallStrict ==
    /\ pc = "entry"
    /\ ~KeyMissing(api_key)
    /\ pc' = "strict_call"
    /\ calls' = Append(calls, "json_schema")
    /\ in_flight' = in_flight + 1
    /\ UNCHANGED << req, climate_monthly, api_key, raw, normalized, validated, reconciled,
                    strict_exc, returned, raised, budget_raised >>
    /\ UNCHANGED << activity_vars, fn_vars, job_vars >>

StrictExcept_Surfaces(exc) == [pc |-> "raised", raised |-> << 502 >>]

\* where the strict path goes when its try block raised `exc` (lines 560-562)
StrictExcept(exc) == [pc |-> "strict_failed", raised |-> <<>>]

\* services/openai_service.py:507-562  the structured call ends and the rest of
\* the try block runs
StrictResponds ==
    /\ pc = "strict_call"
    /\ \E response \in Responses :
         \E a \in { Attempt(req, response, climate_monthly) } :
             /\ raw' = response
             /\ in_flight' = in_flight - 1
             /\ normalized' = a.norm
             /\ validated' = a.validated
             /\ reconciled' = a.reconciled
             /\ IF a.exc = ""
                THEN \E env \in BudgetEnvironments(req) :
                     \E b \in { StrictBudget(req, a.reconciled[1], env.provider, env.fault) } :
                       LET goes == IF b.raised THEN BudgetExcept("strict") ELSE "returned"
                       IN  /\ budget_raised' = b.raised
                           /\ pc' = goes
                           /\ returned' = IF goes = "returned" THEN << b.it >> ELSE returned
                           /\ strict_exc' = IF goes = "returned" THEN strict_exc
                                            ELSE "BudgetError"
                           /\ UNCHANGED raised
                ELSE /\ strict_exc' = a.exc
                     /\ pc' = StrictExcept(a.exc).pc
                     /\ raised' = raised \o StrictExcept(a.exc).raised
                     /\ UNCHANGED << returned, budget_raised >>
    /\ UNCHANGED << req, climate_monthly, api_key, calls >>
    /\ UNCHANGED << activity_vars, fn_vars, job_vars >>

\* services/openai_service.py:565-575  the JSON-mode call starts
CallFallback ==
    /\ pc = "strict_failed"
    /\ pc' = "fallback_call"
    /\ calls' = Append(calls, "json_object")
    /\ in_flight' = in_flight + 1
    /\ raw' = NoResponse
    /\ normalized' = NotNormalized
    /\ strict_exc' = ""
    /\ UNCHANGED << req, climate_monthly, api_key, validated, reconciled, returned, raised,
                    budget_raised >>
    /\ UNCHANGED << activity_vars, fn_vars, job_vars >>

FallbackExcept_Swallows(exc) == [pc |-> "returned", raised |-> <<>>]

\* what the fallback path does when its try block raised `exc` (lines 618-621)
FallbackExcept(exc) == [pc |-> "raised", raised |-> << 502 >>]

\* services/openai_service.py:576-621
FallbackResponds ==
    /\ pc = "fallback_call"
    /\ \E response \in Responses :
         \E a \in { Attempt(req, response, climate_monthly) } :
             /\ raw' = response
             /\ in_flight' = in_flight - 1
             /\ normalized' = a.norm
             /\ validated' = a.validated
             /\ reconciled' = a.reconciled
             /\ IF a.exc = ""
                THEN \E env \in BudgetEnvironments(req) :
                     \E b \in { FallbackBudget(req, a.reconciled[1], env.provider, env.fault) } :
                       LET goes == IF b.raised THEN BudgetExcept("fallback") ELSE "returned"
                       IN  /\ budget_raised' = b.raised
                           /\ pc' = goes
                           /\ returned' = IF goes = "returned" THEN << b.it >> ELSE returned
                           /\ raised' = IF goes = "returned" THEN raised
                                        ELSE Append(raised, 502)
                ELSE /\ pc' = FallbackExcept(a.exc).pc
                     /\ raised' = raised \o FallbackExcept(a.exc).raised
                     /\ UNCHANGED << returned, budget_raised >>
    /\ UNCHANGED << req, climate_monthly, api_key, calls, strict_exc >>
    /\ UNCHANGED << activity_vars, fn_vars, job_vars >>

(***************************************************************************)
(* Validation of one Activity (models.py:139-200).  Times of day are       *)
(* naive times 0..MaxTime; << >> is None.                                  *)
(***************************************************************************)
MidnightTip == "Ends after midnight; times are approximate."

Times == { <<>> } \cup { << t >> : t \in 0..MaxTime }

TipLists == UNION { [1..n -> {"Book ahead", MidnightTip}] : n \in 0..MaxTips }

ActivityInputs ==
    [ title : {"Fado night"}, start_time : Times, end_time : Times, tips : TipLists ]

_normalize_time_order_StrictlyEarlier(self) ==
    IF self.start_time # <<>> /\ self.end_time # <<>> /\ self.end_time[1] < self.start_time[1]
    THEN [self EXCEPT !.tips = Append(self.tips, MidnightTip), !.end_time = <<>>]
    ELSE self

\* models.py:186-200  (a datetime.time is always truthy, so `self.start_time and
\* self.end_time` tests that both are set)
_normalize_time_order(self) ==
    IF self.start_time # <<>> /\ self.end_time # <<>> /\ self.end_time[1] <= self.start_time[1]
    THEN [self EXCEPT !.tips = Append(self.tips, MidnightTip), !.end_time = <<>>]
    ELSE self

\* models.py:139-200  Activity.model_validate on well-typed fields
ActivityValidate(a) == _normalize_time_order(a)

ActivityIdle ==
    /\ activity = <<>>
    /\ activity_out = <<>>
    /\ activity_pc = "idle"

PipelineIdle ==
    /\ req = CHOOSE r \in Requests : TRUE
    /\ climate_monthly = {}
    /\ api_key = TRUE
    /\ pc = "idle"
    /\ calls = <<>>
    /\ in_flight = 0
    /\ raw = NoResponse
    /\ normalized = NotNormalized
    /\ validated = NoItinerary
    /\ reconciled = NoItinerary
    /\ strict_exc = ""
    /\ returned = NoItinerary
    /\ raised = <<>>
    /\ budget_raised = FALSE

FnIdle ==
    /\ fn_in = <<>>
    /\ fn_out = <<>>
    /\ fn_pc = "idle"

JobsIdle ==
    /\ jobs = <<>>
    /\ runner_pc = <<>>
    /\ lock = <<>>
    /\ pool = 0
    /\ observed = <<>>

ActivityInit ==
    /\ PipelineIdle
    /\ FnIdle
    /\ JobsIdle
    /\ activity \in { << a >> : a \in ActivityInputs }
    /\ activity_out = <<>>
    /\ activity_pc = "input"

\* Activity.model_validate(input)
ValidateActivity ==
    /\ activity_pc = "input"
    /\ activity_out' = << ActivityValidate(activity[1]) >>
    /\ activity_pc' = "validated"
    /\ UNCHANGED activity
    /\ UNCHANGED << pipeline_vars, fn_vars, job_vars >>

\* Activity.model_validate(validated.model_dump())
RevalidateActivity ==
    /\ activity_pc = "validated"
    /\ activity' = activity_out
    /\ activity_out' = << ActivityValidate(activity_out[1]) >>
    /\ activity_pc' = "revalidated"
    /\ UNCHANGED << pipeline_vars, fn_vars, job_vars >>

Init == PipelineInit /\ ActivityIdle /\ FnIdle /\ JobsIdle

Next ==
    \/ ConfigError
    \/ CallStrict
    \/ StrictResponds
    \/ CallFallback
    \/ FallbackResponds

Spec == Init /\ [][Next]_vars

ActivityNext ==
    \/ ValidateActivity
    \/ RevalidateActivity

SpecActivity == ActivityInit /\ [][ActivityNext]_vars

(***************************************************************************)
(* Properties.                                                             *)
(***************************************************************************)
HasReturned == returned # NoItinerary

\* a provider call has come back with a decoded JSON value, which
\* normalize_candidate_for_response was then run on
NormalizeRan == in_flight = 0 /\ raw.kind \in {"dict", "list", "null"}

\* C1: whenever generate_itinerary returns an itinerary, by the strict path or by
\* the fallback path, the length of its daily_plan equals its total_days.
C1_LenEqualsTotalDays ==
    HasReturned => Len(returned[1].daily_plan) = returned[1].total_days

\* returned by the fallback path, from a response with more days than its total_days
C1_Witness ==
    /\ HasReturned
    /\ Len(calls) = 2
    /\ Len(validated[1].daily_plan) > validated[1].total_days

\* C2: every itinerary returned has exactly as many days as the request asked for
\* (req.days), whatever the model response contained.
C2_LenEqualsRequestedDays ==
    HasReturned => Len(returned[1].daily_plan) = req.days

\* C3: in every itinerary returned, the day at 0-based position i has date
\* start_date + i and day_index i + 1.
C3_DaysFollowPosition ==
    HasReturned =>
        \A n \in 1..Len(returned[1].daily_plan) :
            /\ returned[1].daily_plan[n].date = returned[1].start_date + (n - 1)
            /\ returned[1].daily_plan[n].day_index = n

C4_State ==
    /\ in_flight \in {0, 1}
    /\ calls \in { <<>>, << "json_schema" >>, << "json_schema", "json_object" >> }
    /\ in_flight = 1 <=> pc \in {"strict_call", "fallback_call"}
    \* a failure of the strict path is not surfaced
    /\ pc = "strict_failed" => (strict_exc # "" /\ raised = <<>> /\ returned = NoItinerary)
    /\ raised # <<>> => (calls = <<>> \/ Len(calls) = 2)

C4_Step ==
    \* the second call is made only after the strict path failed
    /\ (Len(calls) < 2 /\ Len(calls') = 2) => pc = "strict_failed"
    \* and once the strict path failed, the second call is what comes next
    /\ pc = "strict_failed" => (calls' = Append(calls, "json_object") /\ pc' = "fallback_call")
    \* leaving the strict call, the path either returns or has failed
    /\ pc = "strict_call" =>
          /\ pc' \in {"returned", "strict_failed"}
          /\ pc' = "strict_failed" <=> Attempt(req, raw', climate_monthly).exc # ""
    \* after a return no call is made
    /\ pc = "returned" => calls' = calls

\* C4: the provider is called at most twice and never concurrently, first in
\* strict-schema mode and a second time in JSON-object mode if and only if the
\* strict path failed; a strict-path failure is never surfaced, and a strict-path
\* success makes no second call.
C4_AtMostTwoCalls == [](C4_State) /\ [][C4_Step]_vars

\* the strict path failed on validation and the fallback path returned
C4_Witness ==
    /\ HasReturned
    /\ calls = << "json_schema", "json_object" >>

\* C5: if both paths fail, generate_itinerary raises exactly one 502 and returns
\* no itinerary.
C5_ExhaustedFallback ==
    /\ (Len(calls) = 2 /\ in_flight = 0 /\ Attempt(req, raw, climate_monthly).exc # "")
          => (pc = "raised" /\ raised = << 502 >> /\ returned = NoItinerary)
    /\ raised # <<>> => (Len(raised) = 1 /\ returned = NoItinerary)

\* the fallback path failed at validation, after normalization had built a dict
C5_Witness ==
    /\ pc = "raised"
    /\ Len(calls) = 2
    /\ normalized.out # NoDict

\* C6: without a provider credential generate_itinerary raises a 500 at once and
\* makes no provider call.
C6_NoKeyNoCall ==
    ~api_key =>
        /\ calls = <<>>
        /\ in_flight = 0
        /\ returned = NoItinerary
        /\ pc \in {"entry", "raised"}
        /\ pc = "raised" => raised = << 500 >>

C6_Witness == ~api_key /\ pc = "raised" /\ raised = << 500 >>

\* C7: normalize_candidate_for_response never raises: it returns a dict for every
\* request and every decoded JSON value.
C7_NormalizeNeverRaises ==
    NormalizeRan => (normalized.raised = "" /\ normalized.out # NoDict)

RequiredFieldsSet(out) ==
    /\ out.destination.k \notin {"absent", "null"}
    /\ out.start_date.k \notin {"absent", "null"}
    /\ out.end_date.k \notin {"absent", "null"}
    /\ out.total_days.k = "int" /\ out.total_days.v >= 1
    /\ out.currency.k \notin {"absent", "null"}
    /\ out.meta.k \notin {"absent", "null"}
    /\ \A n \in 1..Len(out.daily_plan) :
          /\ out.daily_plan[n].day_index.k = "int" /\ out.daily_plan[n].day_index.v >= 1
          /\ out.daily_plan[n].date.k \notin {"absent", "null"}

\* C8: the dict returned by normalize_candidate_for_response carries every required
\* field (total_days >= 1, every day a day_index >= 1 and a date), and a candidate
\* without currency gets the local currency of the destination.
C8_NormalizedHasRequiredFields ==
    /\ (NormalizeRan /\ normalized.out # NoDict) => RequiredFieldsSet(normalized.out[1])
    /\ (NormalizeRan /\ ~Truthy(Get(TopLevel(_unwrap_root(raw)).currency))) =>
          /\ normalized.out # NoDict
          /\ normalized.out[1].currency.k = "str"
          /\ normalized.out[1].currency.s =
                CC_TO_CURRENCY(guess_country_code(normalized.out[1].destination))

\* C9: day reconciliation to N = total_days keeps a short list as a prefix and
\* appends empty days, each with the day_index of the day before it plus one and
\* the date of the day before it plus one day; a long list is cut to its first N days.
C9_ReconcileContinuesSequence ==
    reconciled # NoItinerary =>
        LET before == validated[1].daily_plan
            after == reconciled[1].daily_plan
            N == validated[1].total_days
        IN  /\ Len(before) < N =>
                  /\ Len(after) = N
                  /\ SubSeq(after, 1, Len(before)) = before
                  /\ \A n \in (Len(before) + 1)..N :
                        /\ after[n].activities = NoActivities
                        /\ after[n].notes = <<>>
                        /\ after[n].summary = JNull
                        /\ n > 1 => /\ after[n].day_index = after[n - 1].day_index + 1
                                    /\ after[n].date = after[n - 1].date + 1
            /\ Len(before) > N => after = SubSeq(before, 1, N)

ActivityValidated == activity_pc \in {"validated", "revalidated"}

Overnight(a) ==
    a.start_time # <<>> /\ a.end_time # <<>> /\ a.end_time[1] <= a.start_time[1]

\* C10: an Activity whose end_time is not after its start_time validates to one
\* that keeps start_time, has no end_time and has the midnight tip appended after
\* its tips; every validated Activity with both times has end_time > start_time;
\* validating a validated Activity again changes nothing.
C10_OvernightNormalized ==
    ActivityValidated =>
        LET in == activity[1]
            out == activity_out[1]
        IN  /\ Overnight(in) =>
                  /\ out.start_time = in.start_time
                  /\ out.end_time = <<>>
                  /\ out.tips = Append(in.tips, MidnightTip)
                  /\ out.title = in.title
            /\ (out.start_time # <<>> /\ out.end_time # <<>>) =>
                  out.end_time[1] > out.start_time[1]
            /\ activity_pc = "revalidated" => out = in

\* an activity ending at its start time, with tips, was validated
C10_Witness ==
    /\ activity_pc = "validated"
    /\ activity[1].end_time = activity[1].start_time
    /\ activity[1].start_time # <<>>
    /\ Len(activity[1].tips) > 0
    /\ activity_out[1].end_time = <<>>

(***************************************************************************)
(* normalize_candidate_for_response on an object R and on {k: R}           *)
(* (services/openai_service.py:203-208 and 320-339).                       *)
(***************************************************************************)
\* {k: R}
Wrap(k, R) == [R EXCEPT !.wrapper = << k >> \o R.wrapper]

\* the JSON objects R: plain objects, and single-key objects {w: value}
UnwrapObjects ==
    { r \in ObjectResponses : /\ r.destination = JAbsent /\ r.end_date = JAbsent
                              /\ r.meta = JAbsent }
    \cup WrappedResponses

UnwrapRequests == { r \in Requests : r.home_currency = "" /\ r.max_daily_budget = 0 }

UnwrapInit ==
    /\ PipelineIdle
    /\ ActivityIdle
    /\ JobsIdle
    /\ fn_in \in [ req : UnwrapRequests, k : WrapperKeys, R : UnwrapObjects,
                   climate_monthly : ClimateMaps ]
    /\ fn_out = <<>>
    /\ fn_pc = "unwrap_input"

\* normalize_candidate_for_response(req, R) and normalize_candidate_for_response(req, {k: R})
NormalizeBoth ==
    /\ fn_pc = "unwrap_input"
    /\ fn_out' = [ plain |-> normalize_candidate_for_response(fn_in.req, fn_in.R,
                                                              fn_in.climate_monthly),
                   wrapped |-> normalize_candidate_for_response(fn_in.req,
                                                                Wrap(fn_in.k, fn_in.R),
                                                                fn_in.climate_monthly) ]
    /\ fn_pc' = "unwrap_done"
    /\ UNCHANGED fn_in
    /\ UNCHANGED << pipeline_vars, activity_vars, job_vars >>

UnwrapNext == NormalizeBoth

SpecUnwrap == UnwrapInit /\ [][UnwrapNext]_vars

\* R is itself a single-key object whose key is a wrapper key
IsWrapperObject(R) == R.wrapper # <<>> /\ Head(R.wrapper) \in WrapperKeys

\* C11 (as stated): for every wrapper key k and every JSON object R, normalizing
\* {k: R} has the same outcome as normalizing R.
C11_WrappedSameAsPlain ==
    fn_pc = "unwrap_done" => fn_out.wrapped = fn_out.plain

\* C11 (amended): for every wrapper key k and every JSON object R that is not
\* itself a single-key object under a wrapper key, normalizing {k: R} has the
\* same outcome as normalizing R: the same dict returned, or the same exception.
C11_WrappedSameAsPlain_Amended ==
    (fn_pc = "unwrap_done" /\ ~IsWrapperObject(fn_in.R)) => fn_out.wrapped = fn_out.plain

\* a plain object with a currency and a day list, normalized to the same dict both ways
C11_Witness ==
    /\ fn_pc = "unwrap_done"
    /\ fn_in.R.wrapper = <<>>
    /\ fn_out.plain.raised = ""
    /\ Len(fn_out.plain.out[1].daily_plan) > 0
    /\ fn_out.wrapped = fn_out.plain

(***************************************************************************)
(* The strict-schema transformation (services/openai_service.py:92-129).   *)
(* A schema node is a dict; the keys the transformation reads are fields:  *)
(* type (<< >> when the key is missing, << t >> for the string t, a longer *)
(* sequence for a list of type names), properties (name/schema pairs in    *)
(* key order), required, additionalProperties, anyOf and items (<< >> when *)
(* missing).  The schema is a copy.deepcopy of the pydantic schema, a tree.*)
(***************************************************************************)
\* nesting of object nodes below the root
MaxSchemaDepth == 1

Range(seq) == { seq[i] : i \in 1..Len(seq) }

Node(type) ==
    [ type |-> type, has_properties |-> FALSE, properties |-> <<>>, required |-> <<>>,
      additionalProperties |-> "absent", anyOf |-> <<>>, items |-> <<>> ]

NullSchema == Node(<< "null" >>)

AnyOf(branches) == [Node(<<>>) EXCEPT !.anyOf = branches]

ArrayOf(item) == [Node(<< "array" >>) EXCEPT !.items = << item >>]

\* a required field, an Optional field, a field typed by a list of type names
LeafSchemas ==
    { Node(<< "string" >>), AnyOf(<< Node(<< "string" >>), NullSchema >>),
      Node(<< "string", "null" >>) }

RequiredLists(names) ==
    { <<>> } \cup { << n >> : n \in names }
    \cup { pair \in names \X names : pair[1] # pair[2] }

ObjectNode(props, required) ==
    [Node(<< "object" >>) EXCEPT !.has_properties = TRUE, !.properties = props,
                                 !.required = required]

RECURSIVE ObjectSchemas(_)
\* what a property holds: a leaf, a model, an Optional model or a list of models
PropertySchemas(depth) ==
    LeafSchemas
    \cup ObjectSchemas(depth)
    \cup { AnyOf(<< o, NullSchema >>) : o \in ObjectSchemas(depth) }
    \cup { ArrayOf(o) : o \in ObjectSchemas(depth) }

\* object nodes with at most `depth` levels of object nodes below them
ObjectSchemas(depth) ==
    { Node(<< "object" >>) }
    \cup { ObjectNode(<< [name |-> "a", schema |-> leaf] >>, rq) :
             leaf \in LeafSchemas, rq \in RequiredLists({"a"}) }
    \cup (IF depth = 0 THEN {}
          ELSE { ObjectNode(<< [name |-> "a", schema |-> leaf], [name |-> "b", schema |-> sub] >>,
                            rq) :
                   leaf \in LeafSchemas, sub \in PropertySchemas(depth - 1),
                   rq \in RequiredLists({"a", "b"}) })

\* services/openai_service.py:92-99
_is_nullable(prop_schema) ==
    IF prop_schema.type # <<>> /\ "null" \in Range(prop_schema.type)
    THEN TRUE
    ELSE IF prop_schema.anyOf # <<>>
    THEN \E i \in 1..Len(prop_schema.anyOf) : prop_schema.anyOf[i].type = << "null" >>
    ELSE FALSE

_make_nullable_Keeps(prop_schema) == prop_schema

\* services/openai_service.py:101-104
_make_nullable(prop_schema) ==
    IF _is_nullable(prop_schema) THEN prop_schema ELSE AnyOf(<< prop_schema, NullSchema >>)

\* services/openai_service.py:106-113
_transform_object(node) ==
    LET props == node.properties
        orig_required == Range(node.required)
    IN  [ node EXCEPT
            !.required = [ i \in 1..Len(props) |-> props[i].name ],
            !.additionalProperties = "false",
            !.properties = [ i \in 1..Len(props) |->
                               IF props[i].name \notin orig_required
                               THEN [props[i] EXCEPT !.schema = _make_nullable(props[i].schema)]
                               ELSE props[i] ] ]

RECURSIVE visit(_)
\* services/openai_service.py:118-127  visit(x) on a tree: the node is transformed,
\* then every value of it is visited
visit(x) ==
    LET y == IF x.type = << "object" >> /\ x.has_properties THEN _transform_object(x) ELSE x
    IN  [ y EXCEPT
            !.properties = [ i \in 1..Len(y.properties) |->
                               [y.properties[i] EXCEPT !.schema = visit(y.properties[i].schema)] ],
            !.anyOf = [ i \in 1..Len(y.anyOf) |-> visit(y.anyOf[i]) ],
            !.items = [ i \in 1..Len(y.items) |-> visit(y.items[i]) ] ]

\* services/openai_service.py:115-129
_walk_and_transform(schema) == visit(schema)

SchemaInit ==
    /\ PipelineIdle
    /\ ActivityIdle
    /\ JobsIdle
    /\ fn_in \in ObjectSchemas(MaxSchemaDepth)
    /\ fn_out = <<>>
    /\ fn_pc = "schema_input"

\* services/openai_service.py:145-151  build_openai_strict_schema on the copy
TransformSchema ==
    /\ fn_pc = "schema_input"
    /\ fn_out' = _walk_and_transform(fn_in)
    /\ fn_pc' = "schema_done"
    /\ UNCHANGED fn_in
    /\ UNCHANGED << pipeline_vars, activity_vars, job_vars >>

SchemaNext == TransformSchema

SpecSchema == SchemaInit /\ [][SchemaNext]_vars

\* the schema validates the JSON value null
AcceptsNull(s) ==
    /\ s.type # <<>> => "null" \in Range(s.type)
    /\ s.anyOf # <<>> => \E i \in 1..Len(s.anyOf) : s.anyOf[i].type = << "null" >>
    /\ s.type # <<>> \/ s.anyOf # <<>>

RECURSIVE StrictNodes(_, _)
\* `new` is `orig` with every object node made strict: walks the two trees together
StrictNodes(orig, new) ==
    /\ new.type = orig.type
    /\ Len(new.properties) = Len(orig.properties)
    /\ Len(new.anyOf) = Len(orig.anyOf)
    /\ Len(new.items) = Len(orig.items)
    /\ \A i \in 1..Len(orig.anyOf) : StrictNodes(orig.anyOf[i], new.anyOf[i])
    /\ \A i \in 1..Len(orig.items) : StrictNodes(orig.items[i], new.items[i])
    /\ IF orig.type = << "object" >> /\ orig.has_properties
       THEN /\ Range(new.required) = { new.properties[i].name : i \in 1..Len(new.properties) }
            /\ new.additionalProperties = "false"
            /\ \A i \in 1..Len(orig.properties) :
                 LET os == orig.properties[i].schema
                     ns == new.properties[i].schema
                 IN  /\ new.properties[i].name = orig.properties[i].name
                     /\ IF orig.properties[i].name \in Range(orig.required)
                        THEN StrictNodes(os, ns)
                        ELSE /\ AcceptsNull(ns)
                             /\ \/ StrictNodes(os, ns)
                                \/ /\ Len(ns.anyOf) = 2
                                   /\ ns.anyOf[2] = NullSchema
                                   /\ StrictNodes(os, ns.anyOf[1])
       ELSE /\ new.required = orig.required
            /\ new.additionalProperties = orig.additionalProperties

\* C12: after the schema transformation every object node has required equal, as a
\* set, to the keys of its properties and additionalProperties false; every
\* property outside the node's original required list accepts null, and every
\* originally required property is left unwrapped.
C12_ObjectNodesStrict ==
    fn_pc = "schema_done" => StrictNodes(fn_in, fn_out)

\* a root whose optional property b is a nested model with an optional string: b is
\* wrapped and the model inside the wrapper is made strict too
C12_Witness ==
    /\ fn_pc = "schema_done"
    /\ Len(fn_in.properties) = 2
    /\ fn_in.required = << "a" >>
    /\ fn_in.properties[2].schema.type = << "object" >>
    /\ fn_in.properties[2].schema.required = <<>>
    /\ Len(fn_in.properties[2].schema.properties) = 1
    /\ fn_in.properties[2].schema.properties[1].schema = Node(<< "string" >>)
    /\ fn_out.properties[1].schema = fn_in.properties[1].schema
    /\ fn_out.properties[2].schema.anyOf[1].required = << "a" >>
    /\ fn_out.properties[2].schema.anyOf[1].properties[1].schema.anyOf[2] = NullSchema

(***************************************************************************)
(* _inject_weather applied once and twice                                  *)
(* (services/openai_service.py:271-318).                                   *)
(***************************************************************************)
\* longest notes list of a day handed to a note-writing helper
MaxNotes == 2

NoteLists(lines) == UNION { [1..n -> lines] : n \in 0..MaxNotes }

\* the keys of a day that _inject_weather reads: a date in June, a date in July, a
\* string that is no date; no weather, or a weather dict with a summary only
WeatherDays ==
    [ date : {JIso(152), JIso(182), JStr("soon")},
      weather : {JNull, JObj("summary only")},
      notes : NoteLists({"Bring water", WeatherTip, "weather tip: sunny"}) ]

WeatherInit ==
    /\ PipelineIdle
    /\ ActivityIdle
    /\ JobsIdle
    /\ fn_in \in [ days : { << d >> : d \in WeatherDays }, climate_monthly : ClimateMaps ]
    /\ fn_out = <<>>
    /\ fn_pc = "weather_input"

\* _inject_weather(days, climate_monthly)
InjectOnce ==
    /\ fn_pc = "weather_input"
    /\ fn_out' = << _inject_weather(fn_in.days, fn_in.climate_monthly) >>
    /\ fn_pc' = "weather_once"
    /\ UNCHANGED fn_in
    /\ UNCHANGED << pipeline_vars, activity_vars, job_vars >>

\* _inject_weather(days, climate_monthly) on the same list again
InjectTwice ==
    /\ fn_pc = "weather_once"
    /\ fn_out' = Append(fn_out, _inject_weather(fn_out[1], fn_in.climate_monthly))
    /\ fn_pc' = "weather_twice"
    /\ UNCHANGED fn_in
    /\ UNCHANGED << pipeline_vars, activity_vars, job_vars >>

WeatherNext ==
    \/ InjectOnce
    \/ InjectTwice

SpecWeather == WeatherInit /\ [][WeatherNext]_vars

WeatherTips(notes) == { n \in 1..Len(notes) : IsWeatherTip(notes[n]) }

HasClimate(d, climate) == CanParseDate(d.date) /\ MonthOf(fromisoformat(d.date)) \in climate

\* C13: applying _inject_weather twice gives the same days as applying it once, and
\* every day whose month has a climate entry ends with exactly one note that begins
\* with 'weather tip', also when the incoming notes already hold weather-tip lines.
C13_WeatherIdempotentOneTip ==
    fn_pc = "weather_twice" =>
        /\ fn_out[2] = fn_out[1]
        /\ \A n \in 1..Len(fn_out[2]) :
             HasClimate(fn_out[2][n], fn_in.climate_monthly)
                 => Cardinality(WeatherTips(fn_out[2][n].notes)) = 1

(***************************************************************************)
(* annotate_budget applied once and twice to a validated itinerary         *)
(* (services/budget_annotator.py:26-127).                                  *)
(***************************************************************************)
\* longest activity list of a day handed to the annotator
MaxActivities == 2

Money(amount_min, amount_max) ==
    << [currency |-> "EUR", amount_min |-> amount_min, amount_max |-> amount_max] >>

\* activities without cost, with a lower bound only, with a range, with an upper bound
BudgetActivities ==
    [ title : {"Belem Tower"},
      estimated_cost : { NoMoney, Money(<< 40 >>, <<>>), Money(<< 10 >>, << 100 >>),
                         Money(<<>>, << 140 >>) } ]

BudgetDays ==
    { [DayPlan(1, 152, JNull, acts, notes) EXCEPT !.weather = JNull] :
        acts \in UNION { [1..n -> BudgetActivities] : n \in 0..MaxActivities },
        notes \in NoteLists({"Bring water", BudgetLine}) }

\* a validated itinerary of one day, or of that day and a day without activities
BudgetItineraries ==
    { [ destination |-> "lisbon", start_date |-> 152, end_date |-> 151 + Len(days),
        total_days |-> Len(days), currency |-> "EUR", daily_plan |-> days,
        generated_at_iso |-> "now" ] :
      days \in { << d >> : d \in BudgetDays }
               \cup { << d, DayPlan(2, 153, JNull, NoActivities, <<>>) >> : d \in BudgetDays } }

BudgetInit ==
    /\ PipelineIdle
    /\ ActivityIdle
    /\ JobsIdle
    /\ fn_in \in [ it : BudgetItineraries,
                   home_currency : {"", "EUR", "GBP"},
                   max_daily_budget : {JNull, JInt(0), JInt(100), JInt(150)},
                   provider : RateProviders ]
    /\ fn_out = <<>>
    /\ fn_pc = "budget_input"

\* services/budget_annotator.py:109-118  the lines one run generates, day by day
BudgetLines(it, home_currency, max_daily_budget, provider) ==
    IF home_currency = "" \/ ~Truthy(max_daily_budget)
    THEN <<>>
    ELSE [ n \in 1..Len(it.daily_plan) |->
             BudgetLineOf(it.daily_plan[n], it.currency, home_currency, max_daily_budget.v,
                          provider) ]

\* annotate_budget(itinerary, home_currency=..., max_daily_budget=..., currency_svc=...)
AnnotateOnce ==
    /\ fn_pc = "budget_input"
    /\ fn_out' = << [ it |-> annotate_budget(fn_in.it, fn_in.home_currency,
                                             fn_in.max_daily_budget, fn_in.provider, 0).it,
                      lines |-> BudgetLines(fn_in.it, fn_in.home_currency,
                                            fn_in.max_daily_budget, fn_in.provider) ] >>
    /\ fn_pc' = "budget_once"
    /\ UNCHANGED fn_in
    /\ UNCHANGED << pipeline_vars, activity_vars, job_vars >>

\* annotate_budget on the itinerary it returned, with the same arguments
AnnotateTwice ==
    /\ fn_pc = "budget_once"
    /\ fn_out' = Append(fn_out,
                        [ it |-> annotate_budget(fn_out[1].it, fn_in.home_currency,
                                                 fn_in.max_daily_budget, fn_in.provider, 0).it,
                          lines |-> BudgetLines(fn_out[1].it, fn_in.home_currency,
                                                fn_in.max_daily_budget, fn_in.provider) ])
    /\ fn_pc' = "budget_twice"
    /\ UNCHANGED fn_in
    /\ UNCHANGED << pipeline_vars, activity_vars, job_vars >>

BudgetNext ==
    \/ AnnotateOnce
    \/ AnnotateTwice

SpecBudget == BudgetInit /\ [][BudgetNext]_vars

IsBudgetNote(n) == n \in { BudgetNote([status |-> st]) : st \in {"UNDER", "OVER"} }

BudgetNotes(notes) == { n \in 1..Len(notes) : IsBudgetNote(notes[n]) }

\* C14: running annotate_budget a second time on an already annotated itinerary, with
\* the same home currency, cap and rates, leaves every day with exactly one
\* 'Budget (...)' line.
C14_AnnotateTwiceOneLine ==
    ( /\ fn_pc = "budget_twice"
      /\ fn_out[1].lines # <<>>
      /\ \A n \in 1..Len(fn_in.it.daily_plan) : BudgetNotes(fn_in.it.daily_plan[n].notes) = {} )
    => \A n \in 1..Len(fn_out[2].it.daily_plan) :
         Cardinality(BudgetNotes(fn_out[2].it.daily_plan[n].notes)) = 1

\* C16: annotate_budget leaves the itinerary unchanged when home_currency or
\* max_daily_budget is absent; when both are supplied, for every cap that is a
\* non-negative integer, 0 included, every day's notes become one budget line at
\* index 0 followed by the notes it had, and no other field changes.
C16_AnnotateFrame ==
    fn_pc = "budget_once" =>
        IF fn_in.home_currency = "" \/ fn_in.max_daily_budget = JNull
        THEN fn_out[1].it = fn_in.it
        ELSE /\ Len(fn_out[1].it.daily_plan) = Len(fn_in.it.daily_plan)
             /\ \A n \in 1..Len(fn_in.it.daily_plan) :
                  /\ Len(fn_out[1].it.daily_plan[n].notes) = Len(fn_in.it.daily_plan[n].notes) + 1
                  /\ IsBudgetNote(Head(fn_out[1].it.daily_plan[n].notes))
                  /\ Tail(fn_out[1].it.daily_plan[n].notes) = fn_in.it.daily_plan[n].notes
             /\ [fn_out[1].it EXCEPT !.daily_plan =
                   [ n \in 1..Len(fn_in.it.daily_plan) |->
                       [fn_out[1].it.daily_plan[n] EXCEPT !.notes = fn_in.it.daily_plan[n].notes] ]]
                = fn_in.it

\* the reported percentage is |C - T| / C * 100 rounded to the nearest whole number
NearestPercent(line) ==
    2 * Abs(line.pct * (100 * line.cap) - 100 * Abs(100 * line.cap - line.home_sum))
        <= 100 * line.cap

\* C17 (as stated): with T the day's total in home currency and C the cap, the line
\* says OVER exactly when T > C and UNDER exactly when T < C, and the deviation
\* |C - T| / C * 100 rounded to the nearest whole number.
C17_StatusAndDeviation ==
    fn_pc = "budget_once" =>
        \A n \in 1..Len(fn_out[1].lines) :
            LET line == fn_out[1].lines[n]
            IN  /\ line.status = "OVER" <=> line.home_sum > 100 * line.cap
                /\ line.status = "UNDER" <=> line.home_sum < 100 * line.cap
                /\ NearestPercent(line)

\* C17 (amended): the line says OVER exactly when T > C and UNDER exactly when
\* T <= C (a total equal to the cap is reported UNDER by 0%), and the deviation
\* |C - T| / C * 100 rounded to the nearest whole number.
C17_StatusAndDeviation_Amended ==
    fn_pc = "budget_once" =>
        \A n \in 1..Len(fn_out[1].lines) :
            LET line == fn_out[1].lines[n]
            IN  /\ line.status \in {"OVER", "UNDER"}
                /\ line.status = "OVER" <=> line.home_sum > 100 * line.cap
                /\ line.status = "UNDER" <=> line.home_sum <= 100 * line.cap
                /\ NearestPercent(line)
                /\ line.home_sum = 100 * line.cap => line.pct = 0

\* a day of 140 EUR at rate 0.85 against a cap of 150 GBP: 119.00, UNDER by 21%
C17_Witness ==
    /\ fn_pc = "budget_once"
    /\ fn_in.home_currency = "GBP"
    /\ fn_in.provider.rate = 850
    /\ fn_out[1].lines # <<>>
    /\ LocalSum(fn_in.it.daily_plan[1].activities) = 14000
    /\ fn_out[1].lines[1] = [home_sum |-> 11900, cap |-> 150, status |-> "UNDER", pct |-> 21]
    /\ Head(fn_out[1].it.daily_plan[1].notes) = BudgetLine

(***************************************************************************)
(* _apply_budget_guardrails applied once and twice to the days of a        *)
(* normalized response (services/openai_service.py:210-261).               *)
(*                                                                         *)
(* The function computes in Python floats (IEEE binary64, round to nearest *)
(* even).  A float is the record [c, e, d] that stands for the real number *)
(*     c / 100  +  d / (100 * 2^e)                                         *)
(* c hundredths plus an error of d units of 1/(100 * 2^e).  Every float    *)
(* the function meets is the float nearest to such a number, and the       *)
(* record keeps it exactly with small integers.                            *)
(***************************************************************************)
RECURSIVE Pow2(_)
Pow2(n) == IF n = 0 THEN 1 ELSE 2 * Pow2(n - 1)

RECURSIVE Pow2Mod(_, _)
\* 2^n modulo m
Pow2Mod(n, m) == IF n = 0 THEN 1 % m ELSE (2 * Pow2Mod(n - 1, m)) % m

Float(c, e, d) == [c |-> c, e |-> e, d |-> d]

\* 0.0
FloatZero == Float(0, 0, 0)

RECURSIVE BinaryExponent(_)
\* the p with 2^p <= c / 100 < 2^(p + 1), for c > 0
BinaryExponent(c) ==
    IF c >= 200 THEN 1 + BinaryExponent(c \div 2)
    ELSE IF c >= 100 THEN 0
    ELSE BinaryExponent(2 * c) - 1

\* c / 100 is a power of two
IsPowerOfTwo(c) ==
    LET p == BinaryExponent(c)
    IN  IF p >= 0 THEN c = 100 * Pow2(p) ELSE c * Pow2(0 - p) = 100

\* the binary64 nearest to c / 100 + D / (100 * 2^e0), ties to the even mantissa:
\* the mantissa has 53 bits, so the result is a multiple of 2^-e with e = 52 - p
RoundFloat(c, e0, D) ==
    IF c <= 0 THEN Float(c, 0, 0)
    ELSE LET p == BinaryExponent(c) - (IF IsPowerOfTwo(c) /\ D < 0 THEN 1 ELSE 0)
             e == 52 - p
             sh == IF D = 0 THEN 0 ELSE e0 - e
             \* c * 2^e = 100 * q + r, and q is even exactly when r200 < 100
             r200 == (c * Pow2Mod(e, 200)) % 200
             r == r200 % 100
             q_odd == r200 \div 100
             den == 100 * Pow2(sh)
             F == r * Pow2(sh) + D
             down == F \div den
             rem == F - down * den
             up == IF 2 * rem > den THEN 1
                   ELSE IF 2 * rem < den THEN 0
                   ELSE (q_odd + down) % 2
         IN  Float(c, e, 100 * (down + up) - r)

\* x + y
FloatAdd(x, y) ==
    IF x = FloatZero THEN y
    ELSE IF y = FloatZero THEN x
    ELSE LET e0 == IF x.e > y.e THEN x.e ELSE y.e
         IN  RoundFloat(x.c + y.c, e0, x.d * Pow2(e0 - x.e) + y.d * Pow2(e0 - y.e))

\* x * n for a whole number n > 0
FloatTimes(x, n) == RoundFloat(x.c * n, x.e, x.d * n)

\* x < y
FloatLess(x, y) ==
    LET e0 == IF x.e > y.e THEN x.e ELSE y.e
    IN  \/ x.c < y.c
        \/ x.c = y.c /\ x.d * Pow2(e0 - x.e) < y.d * Pow2(e0 - y.e)

\* services/openai_service.py:210-215  float(x), or None when x is None or no number
_as_num(x) ==
    CASE x.k = "int" -> << RoundFloat(100 * x.v, 0, 0) >>
      [] x.k = "num" -> << RoundFloat(x.v, 0, 0) >>
      [] OTHER -> <<>>

\* max(0.0, x or 0.0)
Max0(x) == IF x.c > 0 THEN x ELSE FloatZero

RECURSIVE SumCostsFrom(_, _)
\* services/openai_service.py:220-231  the loop, entered with the sums so far
SumCostsFrom(sums, activities) ==
    IF activities = <<>> THEN sums
    ELSE LET c == Get(Head(activities).estimated_cost)
             lo == _as_num(Get(c.amount_min))
             hi == _as_num(Get(c.amount_max))
         IN  IF c.k # "dict" \/ (lo = <<>> /\ hi = <<>>)
             THEN SumCostsFrom(sums, Tail(activities))
             ELSE SumCostsFrom(
                    [ mn |-> FloatAdd(sums.mn, Max0(IF lo = <<>> THEN hi[1] ELSE lo[1])),
                      mx |-> FloatAdd(sums.mx, Max0(IF hi = <<>> THEN lo[1] ELSE hi[1])) ],
                    Tail(activities))

\* services/openai_service.py:217-232
_sum_costs(activities) == SumCostsFrom([mn |-> FloatZero, mx |-> FloatZero], activities)

\* services/openai_service.py:244-246  0.95 * cap_f and 1.05 * cap_f
lo_band(cap) == FloatTimes(RoundFloat(95, 0, 0), cap)
hi_band(cap) == FloatTimes(RoundFloat(105, 0, 0), cap)

\* services/openai_service.py:252-256
GuardrailVerdict(mn, mx, cap) ==
    IF FloatLess(hi_band(cap), mx) THEN "OVER"
    ELSE IF FloatLess(mn, lo_band(cap)) THEN "UNDER"
    ELSE "WITHIN"

\* services/openai_service.py:257  the summary line (its numbers are not spelled out)
BudgetSummary(verdict) ==
    CASE verdict = "OVER" -> "Budget summary: total vs cap - OVER"
      [] verdict = "UNDER" -> "Budget summary: total vs cap - UNDER"
      [] OTHER -> "Budget summary: total vs cap - WITHIN"

\* services/openai_service.py:258-261
BudgetSuggestion(verdict) ==
    CASE verdict = "OVER" -> << "Budget suggestion: swap one paid attraction" >>
      [] verdict = "UNDER" -> << "Budget suggestion: consider an upgrade" >>
      [] OTHER -> <<>>

IsBudgetSummary(n) == n \in { BudgetSummary(v) : v \in {"OVER", "UNDER", "WITHIN"} }

IsBudgetSuggestion(n) == n \in UNION { Range(BudgetSuggestion(v)) : v \in {"OVER", "UNDER"} }

\* `n.lower().startswith("budget ")`
StartsWithBudget(n) ==
    IsBudgetSummary(n) \/ IsBudgetSuggestion(n) \/ IsBudgetNote(n)
    \/ n = "budget airlines fly here"

StripBudgetNotes_Keeps(notes) == notes

\* services/openai_service.py:250
StripBudgetNotes(notes) == SelectSeq(notes, LAMBDA n : ~StartsWithBudget(n))

\* services/openai_service.py:248-261  one day
GuardrailDay(d, cap) ==
    LET sums == _sum_costs(d.activities)
        verdict == GuardrailVerdict(sums.mn, sums.mx, cap)
    IN  [ d EXCEPT !.notes = << BudgetSummary(verdict) >> \o StripBudgetNotes(d.notes)
                             \o BudgetSuggestion(verdict) ]

\* services/openai_service.py:241-261
_apply_budget_guardrails(days, cap, currency) ==
    IF ~Truthy(cap) THEN days
    ELSE [ n \in 1..Len(days) |-> GuardrailDay(days[n], cap.v) ]

\* activities as the normalizer leaves them: no cost, a range, an upper bound only,
\* a single amount
GuardrailActivities ==
    { [RawActivity(JStr("Belem Tower")) EXCEPT !.estimated_cost = c] :
        c \in { CostNull,
                CostValue("dict", JStr("EUR"), JAbsent, JInt(10), JInt(100), JNull),
                CostValue("dict", JStr("EUR"), JAbsent, JNull, JInt(40), JNull),
                CostValue("dict", JStr("EUR"), JAbsent, JInt(100), JInt(100), JNull) } }

GuardrailDays ==
    [ activities : UNION { [1..n -> GuardrailActivities] : n \in 0..MaxActivities },
      notes : NoteLists({ "Bring water", "Pack a hat", "budget airlines fly here",
                          BudgetSummary("UNDER"), "Budget suggestion: swap one paid attraction" }) ]

GuardrailInit ==
    /\ PipelineIdle
    /\ ActivityIdle
    /\ JobsIdle
    /\ fn_in \in [ days : { << d >> : d \in GuardrailDays },
                   cap : {JNull, JInt(0), JInt(100)},
                   currency : {"EUR"} ]
    /\ fn_out = <<>>
    /\ fn_pc = "guardrail_input"

\* _apply_budget_guardrails(days, cap, currency)
GuardOnce ==
    /\ fn_pc = "guardrail_input"
    /\ fn_out' = << _apply_budget_guardrails(fn_in.days, fn_in.cap, fn_in.currency) >>
    /\ fn_pc' = "guardrail_once"
    /\ UNCHANGED fn_in
    /\ UNCHANGED << pipeline_vars, activity_vars, job_vars >>

\* _apply_budget_guardrails on the same days again
GuardTwice ==
    /\ fn_pc = "guardrail_once"
    /\ fn_out' = Append(fn_out, _apply_budget_guardrails(fn_out[1], fn_in.cap, fn_in.currency))
    /\ fn_pc' = "guardrail_twice"
    /\ UNCHANGED fn_in
    /\ UNCHANGED << pipeline_vars, activity_vars, job_vars >>

GuardrailNext ==
    \/ GuardOnce
    \/ GuardTwice

SpecGuardrail == GuardrailInit /\ [][GuardrailNext]_vars

\* one summary line, at index 0; at most one suggestion line; no other line that
\* starts with "budget "; the other notes of `before`, in their order
GuardrailShape(before, after) ==
    /\ after # <<>>
    /\ IsBudgetSummary(Head(after))
    /\ Cardinality({ n \in 1..Len(after) : IsBudgetSummary(after[n]) }) = 1
    /\ Cardinality({ n \in 1..Len(after) : IsBudgetSuggestion(after[n]) }) <= 1
    /\ \A n \in 1..Len(after) :
         StartsWithBudget(after[n]) => IsBudgetSummary(after[n]) \/ IsBudgetSuggestion(after[n])
    /\ SelectSeq(after, LAMBDA n : ~StartsWithBudget(n))
         = SelectSeq(before, LAMBDA n : ~StartsWithBudget(n))

Currencies == {"EUR", "GBP", "USD"}

\* the itinerary with every day's notes blanked
WithoutNotes(it) ==
    [it EXCEPT !.daily_plan = [ n \in 1..Len(it.daily_plan) |->
                                  [it.daily_plan[n] EXCEPT !.notes = <<>>] ]]

\* C18: get_rate(b, b) is 1 for every currency b; when the rate provider errors,
\* times out or lacks the quote currency, get_rate returns 1; and when budget
\* annotation raises inside generate_itinerary, no further LLM call is made and no
\* error is raised: the validated, reconciled itinerary is returned.
C18_ConversionNeverFails ==
    /\ \A b \in Currencies, provider \in RateProviders : get_rate(b, b, provider) = 1000
    /\ \A b \in Currencies, q \in Currencies, provider \in RateProviders :
         provider.kind # "rates" => get_rate(b, q, provider) = 1000
    /\ budget_raised =>
         /\ pc = "returned"
         /\ raised = <<>>
         /\ HasReturned
         /\ WithoutNotes(returned[1]) = WithoutNotes(reconciled[1])

\* the annotator raised at the second day on the strict path: the itinerary came
\* back after one call, its first day annotated
C18_Witness ==
    /\ budget_raised
    /\ Len(calls) = 1
    /\ HasReturned
    /\ Len(returned[1].daily_plan) >= 2
    /\ returned[1].daily_plan[1].notes # reconciled[1].daily_plan[1].notes
    /\ returned[1].daily_plan[2].notes = reconciled[1].daily_plan[2].notes

(***************************************************************************)
(* The job manager (jobs.py): JobManager.create starts one runner thread   *)
(* per job; the threads interleave statement by statement, a `with         *)
(* self._lock` block excluding every other one.                            *)
(***************************************************************************)
\* jobs created in one run of the server
MaxJobs == 2
\* permits of JobManager._pool (jobs.py:21 has 4, for more jobs than the model runs)
max_workers == 1
\* progress messages the target sends while it runs
MaxProgress == 1

NoResult == <<>>
NoError == <<>>

\* jobs.py:10-18  Job(id=...)
Job ==
    [ status |-> "pending", steps |-> <<>>, result |-> NoResult, error |-> NoError ]

JobsInit ==
    /\ PipelineIdle
    /\ ActivityIdle
    /\ FnIdle
    /\ jobs = <<>>
    /\ runner_pc = <<>>
    /\ lock = <<>>
    /\ pool = max_workers
    /\ observed = <<>>

JobIds == 1..Len(jobs)

progress_Stale(job, msg) ==
    [job EXCEPT !.steps = Append(job.steps, [seq |-> Len(job.steps), msg |-> msg])]

\* jobs.py:26-34  progress(msg), one `with self._lock` block
progress(job, msg) ==
    [job EXCEPT !.steps = Append(job.steps, [seq |-> Len(job.steps) + 1, msg |-> msg])]

Unchanged_others == UNCHANGED << pipeline_vars, activity_vars, fn_vars >>

\* jobs.py:36-43 and 66-67  the job is registered and its thread started
Create ==
    /\ Len(jobs) < MaxJobs
    /\ lock = <<>>
    /\ jobs' = Append(jobs, Job)
    /\ runner_pc' = Append(runner_pc, "start")
    /\ UNCHANGED << lock, pool, observed >>
    /\ Unchanged_others

\* jobs.py:46  job.status = "running", outside the lock
SetRunning(j) ==
    /\ runner_pc[j] = "start"
    /\ jobs' = [jobs EXCEPT ![j].status = "running"]
    /\ runner_pc' = [runner_pc EXCEPT ![j] = "log_started"]
    /\ UNCHANGED << lock, pool, observed >>
    /\ Unchanged_others

\* a progress call of the runner: jobs.py:47, 55 and 62
LogStep(j, at, msg, to) ==
    /\ runner_pc[j] = at
    /\ lock = <<>>
    /\ jobs' = [jobs EXCEPT ![j] = progress(jobs[j], msg)]
    /\ runner_pc' = [runner_pc EXCEPT ![j] = to]
    /\ UNCHANGED << lock, pool, observed >>
    /\ Unchanged_others

\* jobs.py:47
LogStarted(j) == LogStep(j, "log_started", "Job started", "acquire")

\* jobs.py:48  self._pool.acquire() blocks while no permit is free
AcquirePool(j) ==
    /\ runner_pc[j] = "acquire"
    /\ pool > 0
    /\ pool' = pool - 1
    /\ runner_pc' = [runner_pc EXCEPT ![j] = "target"]
    /\ UNCHANGED << jobs, lock, observed >>
    /\ Unchanged_others

\* jobs.py:50  the target reports progress (services/openai_service.py:481-486)
TargetProgress(j) ==
    /\ runner_pc[j] = "target"
    /\ lock = <<>>
    /\ Len(jobs[j].steps) < 1 + MaxProgress
    /\ jobs' = [jobs EXCEPT ![j] = progress(jobs[j], "Calling the model")]
    /\ UNCHANGED << runner_pc, lock, pool, observed >>
    /\ Unchanged_others

\* jobs.py:50  the target returns
TargetReturns(j) ==
    /\ runner_pc[j] = "target"
    /\ runner_pc' = [runner_pc EXCEPT ![j] = "store_result"]
    /\ UNCHANGED << jobs, lock, pool, observed >>
    /\ Unchanged_others

\* jobs.py:50 and 56  the target raises an Exception
TargetRaises(j) ==
    /\ runner_pc[j] = "target"
    /\ runner_pc' = [runner_pc EXCEPT ![j] = "store_error"]
    /\ UNCHANGED << jobs, lock, pool, observed >>
    /\ Unchanged_others

\* jobs.py:51-52  the lock is taken and job.result = res
StoreResult(j) ==
    /\ runner_pc[j] = "store_result"
    /\ lock = <<>>
    /\ lock' = << j >>
    /\ jobs' = [jobs EXCEPT ![j].result = << "itinerary" >>]
    /\ runner_pc' = [runner_pc EXCEPT ![j] = "set_done"]
    /\ UNCHANGED << pool, observed >>
    /\ Unchanged_others

FinalStatus_Reopens(outcome) == "pending"

\* jobs.py:53 and 60  the status a runner writes after the result or error
FinalStatus(outcome) == outcome

\* jobs.py:53-54  job.status = "done", and the lock is given back
SetDone(j) ==
    /\ runner_pc[j] = "set_done"
    /\ lock = << j >>
    /\ jobs' = [jobs EXCEPT ![j].status = FinalStatus("done")]
    /\ lock' = <<>>
    /\ runner_pc' = [runner_pc EXCEPT ![j] = "log_finished"]
    /\ UNCHANGED << pool, observed >>
    /\ Unchanged_others

\* jobs.py:55
LogFinished(j) == LogStep(j, "log_finished", "Job finished", "release")

\* jobs.py:58-59  the lock is taken and job.error = str(e)
StoreError(j) ==
    /\ runner_pc[j] = "store_error"
    /\ lock = <<>>
    /\ lock' = << j >>
    /\ jobs' = [jobs EXCEPT ![j].error = << "502: LLM generation failed" >>]
    /\ runner_pc' = [runner_pc EXCEPT ![j] = "set_error"]
    /\ UNCHANGED << pool, observed >>
    /\ Unchanged_others

\* jobs.py:60-61  job.status = "error", and the lock is given back
SetError(j) ==
    /\ runner_pc[j] = "set_error"
    /\ lock = << j >>
    /\ jobs' = [jobs EXCEPT ![j].status = FinalStatus("error")]
    /\ lock' = <<>>
    /\ runner_pc' = [runner_pc EXCEPT ![j] = "log_error"]
    /\ UNCHANGED << pool, observed >>
    /\ Unchanged_others

\* jobs.py:62
LogError(j) == LogStep(j, "log_error", "Error: 502: LLM generation failed", "release")

ReleasePool_Leaks(j) ==
    /\ runner_pc[j] = "release"
    /\ pool' = pool
    /\ runner_pc' = [runner_pc EXCEPT ![j] = "exited"]
    /\ UNCHANGED << jobs, lock, observed >>
    /\ Unchanged_others

\* jobs.py:63-64  finally: self._pool.release()
ReleasePool(j) ==
    /\ runner_pc[j] = "release"
    /\ pool' = pool + 1
    /\ runner_pc' = [runner_pc EXCEPT ![j] = "exited"]
    /\ UNCHANGED << jobs, lock, observed >>
    /\ Unchanged_others

\* jobs.py:69-71  JobManager.get under the lock; main.py:245-286 reads the job
get(j) ==
    /\ lock = <<>>
    /\ observed' = << [status |-> jobs[j].status, result |-> jobs[j].result,
                       error |-> jobs[j].error] >>
    /\ UNCHANGED << jobs, runner_pc, lock, pool >>
    /\ Unchanged_others

JobsNext ==
    \/ Create
    \/ \E j \in JobIds :
         \/ SetRunning(j)
         \/ LogStarted(j)
         \/ AcquirePool(j)
         \/ TargetProgress(j)
         \/ TargetReturns(j)
         \/ TargetRaises(j)
         \/ StoreResult(j)
         \/ SetDone(j)
         \/ LogFinished(j)
         \/ StoreError(j)
         \/ SetError(j)
         \/ LogError(j)
         \/ ReleasePool(j)
         \/ get(j)

SpecJobs == JobsInit /\ [][JobsNext]_vars

\* what a job looks like in a given status
JobConsistent(job) ==
    /\ job.status = "done" => job.result # NoResult /\ job.error = NoError
    /\ job.status = "error" => job.error # NoError /\ job.result = NoResult

C19_State ==
    /\ \A j \in JobIds : jobs[j].status \in {"pending", "running", "done", "error"}
    /\ observed # <<>> => JobConsistent(observed[1])
    /\ \A j \in JobIds : JobConsistent(jobs[j])

C19_Step ==
    \A j \in JobIds :
        jobs'[j].status # jobs[j].status =>
            \/ jobs[j].status = "pending" /\ jobs'[j].status = "running"
            \/ jobs[j].status = "running" /\ jobs'[j].status \in {"done", "error"}

\* C19: a job's status only moves pending -> running -> done or pending -> running
\* -> error, done and error never change, and in every state JobManager.get can
\* observe, done comes with a result and no error, error with an error message and
\* no result.
C19_JobStatusMachine == [](C19_State) /\ [][C19_Step]_vars

\* a job was observed done with its result while another job is in error
C19_Witness ==
    /\ observed # <<>>
    /\ observed[1].status = "done"
    /\ observed[1].result # NoResult
    /\ \E j \in JobIds : jobs[j].status = "error" /\ jobs[j].error # NoError

(***************************************************************************)
(* Activity sanitization on its own: _sanitize_activities applied to       *)
(* activity lists whose two cost keys take every shape the model can send. *)
(***************************************************************************)
\* the object shapes of a cost: a single amount or a range, with the currency
\* set, null or missing
CostObjects ==
    { CostValue("dict", cur, JInt(12), JAbsent, JAbsent, JAbsent) :
        cur \in {JAbsent, JNull, JStr("JPY")} }
    \cup { CostValue("dict", cur, JAbsent, JInt(10), JInt(20), JStr("entry fee")) :
        cur \in {JAbsent, JStr("JPY")} }
    \cup { CostValue("dict", JStr("JPY"), JAbsent, JInt(10), JAbsent, JAbsent) }

\* a cost that is not an object, e.g. "free"
CostString == CostValue("str", JAbsent, JAbsent, JAbsent, JAbsent, JAbsent)

CostShapes == {CostAbsent, CostNull, CostString} \cup CostObjects

SanitizeActivities ==
    { [RawActivity(t) EXCEPT !.estimated_cost = e, !.cost = c] :
        t \in {JAbsent, JStr("Museum")}, e \in CostShapes, c \in CostShapes }

SanitizeInit ==
    /\ PipelineIdle
    /\ ActivityIdle
    /\ JobsIdle
    /\ fn_in \in { << a >> : a \in SanitizeActivities }
                 \cup { << RawActivity(JAbsent), a >> : a \in SanitizeActivities }
    /\ fn_out = <<>>
    /\ fn_pc = "sanitize"

\* services/openai_service.py:179-201 with the destination's local currency
SanitizeActivitiesStep ==
    /\ fn_pc = "sanitize"
    /\ fn_out' = _sanitize_activities(fn_in, "EUR")
    /\ fn_pc' = "sanitized"
    /\ UNCHANGED fn_in
    /\ UNCHANGED << pipeline_vars, activity_vars, job_vars >>

SanitizeNext == SanitizeActivitiesStep

SpecSanitize == SanitizeInit /\ [][SanitizeNext]_vars

\* the cost an activity supplies: estimated_cost, or the legacy key when that is
\* missing or null
SuppliedCost(a) ==
    IF a.estimated_cost.k \in {"absent", "null"} THEN a.cost ELSE a.estimated_cost

\* the canonical range shape of a supplied cost
CanonicalCost(c, default_currency) ==
    IF c.k # "dict" THEN CostNull
    ELSE [ k |-> "dict",
           currency |-> IF c.currency.k = "str" THEN c.currency ELSE JStr(default_currency),
           amount |-> JAbsent,
           amount_min |-> IF c.amount.k # "absent" THEN c.amount ELSE Get(c.amount_min),
           amount_max |-> IF c.amount.k # "absent" THEN c.amount ELSE Get(c.amount_max),
           notes |-> Get(c.notes) ]

Retained(activities) == SelectSeq(activities, LAMBDA a : a.title.k # "absent")

\* every retained activity has its supplied cost in canonical shape
CostsCanonical ==
    fn_pc = "sanitized" =>
        /\ Len(fn_out) = Len(Retained(fn_in))
        /\ \A n \in 1..Len(fn_out) :
             fn_out[n].estimated_cost = CanonicalCost(SuppliedCost(Retained(fn_in)[n]), "EUR")

\* C20: after sanitization every retained activity carries its cost only under
\* estimated_cost (no legacy cost key remains), in canonical range shape: an amount
\* gives amount_min = amount_max = amount, a range keeps its bounds, a cost under
\* the legacy key is moved with the same bounds, a missing currency becomes the
\* default, and a null or non-object cost becomes null.
C20_CostOnlyUnderEstimatedCost ==
    /\ CostsCanonical
    /\ fn_pc = "sanitized" => \A n \in 1..Len(fn_out) : fn_out[n].cost.k = "absent"

\* C21: in every itinerary generate_itinerary returns, total_days equals
\* end_date - start_date + 1, whatever total_days, start_date and end_date the
\* model response contained.
C21_TotalDaysSpansDates ==
    HasReturned =>
        returned[1].total_days = returned[1].end_date - returned[1].start_date + 1

\* C22: on every successful generation reconciliation runs before weather
\* injection and weather injection before budget annotation: every returned day
\* whose month has climate normals, padded days included, carries a weather tip,
\* and a budget line of a day precedes its weather tip.
C22_ReconcileWeatherBudget ==
    HasReturned =>
        \A n \in 1..Len(returned[1].daily_plan) :
            LET notes == returned[1].daily_plan[n].notes
            IN  /\ MonthOf(returned[1].daily_plan[n].date) \in climate_monthly
                      => WeatherTips(notes) # {}
                /\ \A b \in BudgetNotes(notes), w \in WeatherTips(notes) : b < w

(***************************************************************************)
(* Day-list extraction: normalize_candidate_for_response on objects with   *)
(* a daily_plan key, an itinerary key, both or neither                     *)
(* (services/openai_service.py:203-208 and 333-339).                       *)
(***************************************************************************)
DayListObjects ==
    { [BlankResponse("dict") EXCEPT !.currency = cur, !.daily_plan = dp, !.itinerary = itin] :
        cur \in {JAbsent, JStr("EUR")},
        dp \in DailyPlanValues,
        itin \in DailyPlanValues }

DayListInit ==
    /\ PipelineIdle
    /\ ActivityIdle
    /\ JobsIdle
    /\ fn_in \in [ req : UnwrapRequests, R : DayListObjects, climate_monthly : {{6}} ]
    /\ fn_out = <<>>
    /\ fn_pc = "day_list_input"

NormalizeDayList ==
    /\ fn_pc = "day_list_input"
    /\ fn_out' = normalize_candidate_for_response(fn_in.req, fn_in.R, fn_in.climate_monthly)
    /\ fn_pc' = "day_list_done"
    /\ UNCHANGED fn_in
    /\ UNCHANGED << pipeline_vars, activity_vars, job_vars >>

DayListNext == NormalizeDayList

SpecDayList == DayListInit /\ [][DayListNext]_vars

\* the days built from a list of entries for the request of fn_in: one per object
\* entry, in order
DaysBuiltFrom(entries) ==
    _inject_weather(CleanDays(entries, isoformat(fn_in.req.start_date), "EUR"),
                    fn_in.climate_monthly)

\* the list the claim takes the days from
ClaimedDayList(R) ==
    IF R.daily_plan.k = "list" THEN R.daily_plan.items ELSE R.itinerary.items

\* C23: for every decoded object without a list-typed daily_plan but with a
\* list-typed itinerary, the only-key case included, the normalized daily_plan is
\* built from the entries of the itinerary list, one day per object entry in
\* order; a list-typed daily_plan, when present, is used instead.
C23_ItineraryListFallback ==
    (fn_pc = "day_list_done" /\ "list" \in {fn_in.R.daily_plan.k, fn_in.R.itinerary.k}) =>
        /\ fn_out.raised = ""
        /\ fn_out.out[1].daily_plan = DaysBuiltFrom(ClaimedDayList(fn_in.R))

(***************************************************************************)
(* The defaults of _sanitize_activities: activities whose title, category, *)
(* tags and tips are missing, null or set (no cost keys).                  *)
(***************************************************************************)
FieldActivities ==
    { [RawActivity(t) EXCEPT !.category = c, !.tags = tg, !.tips = tp] :
        t \in {JAbsent, JNull, JStr("Museum")},
        c \in {JAbsent, JNull, JStr("museum"), JStr("party")},
        tg \in {JAbsent, JNull, JList("[]"), JStr("art")},
        tp \in {JAbsent, JNull, JList("book ahead")} }

DefaultsInit ==
    /\ PipelineIdle
    /\ ActivityIdle
    /\ JobsIdle
    /\ fn_in \in { << a >> : a \in FieldActivities }
                 \cup { << a, b >> : a \in FieldActivities,
                                     b \in {RawActivity(JAbsent), RawActivity(JStr("Castle"))} }
    /\ fn_out = <<>>
    /\ fn_pc = "sanitize"

SpecDefaults == DefaultsInit /\ [][SanitizeNext]_vars

\* the activities that have a title
Titled(activities) == SelectSeq(activities, LAMBDA a : a.title.k \notin {"absent", "null"})

\* C24: sanitization drops every activity lacking a title, keeps the others in
\* their order, and every retained activity has a non-null title, a non-null
\* category ('sightseeing' by default) and non-null tags and tips lists, so
\* that it validates on these fields.
C24_DefectsNeverEscalate ==
    fn_pc = "sanitized" =>
        /\ Len(fn_out) = Len(Titled(fn_in))
        /\ \A n \in 1..Len(fn_out) :
             /\ n <= Len(Titled(fn_in)) => fn_out[n].title = Titled(fn_in)[n].title
             /\ fn_out[n].title.k = "str"
             /\ fn_out[n].category.k = "str"
             /\ fn_out[n].tags.k = "list"
             /\ fn_out[n].tips.k = "list"
             /\ ActivityValid(fn_out[n])

(***************************************************************************)
(* The verdict of the guardrail against the 5% band, on days whose costs   *)
(* are whole and fractional amounts (services/openai_service.py:217-261).  *)
(***************************************************************************)
VerdictCosts ==
    { CostNull,
      CostValue("dict", JStr("EUR"), JAbsent, JInt(10), JInt(100), JNull),
      CostValue("dict", JStr("EUR"), JAbsent, JNull, JInt(40), JNull),
      CostValue("dict", JStr("EUR"), JAbsent, JNum(15), JStr("free"), JNull),
      CostValue("dict", JStr("EUR"), JAbsent, JNum(10), JNum(10), JNull),
      CostValue("dict", JStr("EUR"), JAbsent, JNum(1790), JNum(1790), JNull),
      CostValue("dict", JStr("EUR"), JAbsent, JNum(1985), JNum(1985), JNull),
      CostValue("dict", JStr("EUR"), JAbsent, JInt(105), JInt(105), JNull) }

VerdictDays ==
    [ activities : UNION { [1..n -> { [RawActivity(JStr("Belem Tower"))
                                          EXCEPT !.estimated_cost = c] : c \in VerdictCosts }]
                           : n \in 0..MaxActivities },
      notes : { <<>> } ]

VerdictInit ==
    /\ PipelineIdle
    /\ ActivityIdle
    /\ JobsIdle
    /\ fn_in \in [ days : { << d >> : d \in VerdictDays },
                   cap : {JNull, JInt(19), JInt(100)},
                   currency : {"EUR"} ]
    /\ fn_out = <<>>
    /\ fn_pc = "guardrail_input"

SpecVerdict == VerdictInit /\ [][GuardrailNext]_vars

\* a bound in hundredths, << >> when it is missing or no number
Hundredths(x) ==
    CASE x.k = "int" -> << 100 * x.v >>
      [] x.k = "num" -> << x.v >>
      [] OTHER -> <<>>

RECURSIVE DayTotals(_)
\* the day's minimum and maximum cost totals, in hundredths: one present bound
\* counts for both, a cost without bounds counts zero
DayTotals(activities) ==
    IF activities = <<>> THEN [mn |-> 0, mx |-> 0]
    ELSE LET c == Head(activities).estimated_cost
             rest == DayTotals(Tail(activities))
             lo == IF c.k = "dict" THEN Hundredths(c.amount_min) ELSE <<>>
             hi == IF c.k = "dict" THEN Hundredths(c.amount_max) ELSE <<>>
         IN  IF lo = <<>> /\ hi = <<>> THEN rest
             ELSE [ mn |-> rest.mn + (IF lo = <<>> THEN hi[1] ELSE lo[1]),
                    mx |-> rest.mx + (IF hi = <<>> THEN lo[1] ELSE hi[1]) ]

\* OVER above 105% of the cap, else UNDER below 95% of it, else WITHIN
BandVerdict(totals, cap) ==
    IF totals.mx > 105 * cap THEN "OVER"
    ELSE IF totals.mn < 95 * cap THEN "UNDER"
    ELSE "WITHIN"

\* C25: for every day and cap > 0 the verdict is OVER exactly when the day's
\* maximum total exceeds 105% of the cap, otherwise UNDER exactly when its
\* minimum total is below 95% of the cap, otherwise WITHIN; a suggestion is
\* appended exactly for OVER and UNDER; without a cap the days are unchanged.
C25_VerdictByBand ==
    fn_pc \in {"guardrail_once", "guardrail_twice"} =>
        IF fn_in.cap.k = "int" /\ fn_in.cap.v > 0
        THEN \A n \in 1..Len(fn_in.days) :
               LET verdict == BandVerdict(DayTotals(fn_in.days[n].activities), fn_in.cap.v)
               IN  fn_out[1][n].notes =
                       << BudgetSummary(verdict) >> \o fn_in.days[n].notes
                       \o BudgetSuggestion(verdict)
        ELSE fn_out[1] = fn_in.days

(***************************************************************************)
(* The two passes of build_openai_strict_schema on a schema graph          *)
(* (services/openai_service.py:106-143).  The schema dicts live in a heap, *)
(* a node's identity is its index, so that two properties can hold the     *)
(* same dict and a dict can contain itself.  Each visit call is a frame    *)
(* of the stack; the Python interpreter raises RecursionError when the     *)
(* stack is full.                                                          *)
(***************************************************************************)
\* schema dicts of the incoming graph
MaxNodes == 2
\* frames the interpreter allows (Python's default is 1000; the graphs here are small)
RecursionLimit == 6

SchemaNode(type, format, props, required, anyOf) ==
    [ type |-> type, format |-> format, props |-> props, required |-> required,
      additionalProperties |-> "absent", anyOf |-> anyOf, transforms |-> 0 ]

\* the dicts a heap of `size` incoming nodes may hold: a string with or without a
\* format, an object with no, one or two optional properties
GraphNodes(size) ==
    { SchemaNode("string", f, <<>>, {}, <<>>) : f \in {"", "uri", "date"} }
    \cup { SchemaNode("object", "", <<>>, {}, <<>>) }
    \cup { SchemaNode("object", "", << [name |-> "a", ref |-> r] >>, rq, <<>>) :
             r \in 1..size, rq \in {{}, {"a"}} }
    \cup { SchemaNode("object", "", << [name |-> "a", ref |-> r], [name |-> "b", ref |-> q] >>,
                      {}, <<>>) : r \in 1..size, q \in 1..size }

\* the graphs: node 1 is the schema handed in
SchemaGraphs == UNION { [1..size -> GraphNodes(size)] : size \in 1..MaxNodes }

\* the dicts and lists below a dict, in the order of `x.values()`
Children(heap, n) == [ i \in 1..Len(heap[n].props) |-> heap[n].props[i].ref ] \o heap[n].anyOf

\* services/openai_service.py:92-99 on the dict at n
IsNullableAt(heap, n) ==
    \/ heap[n].type = "null"
    \/ \E i \in 1..Len(heap[n].anyOf) : heap[heap[n].anyOf[i]].type = "null"

RECURSIVE WrapProps(_, _, _, _)
\* services/openai_service.py:111-113  the loop, from property i on: _make_nullable
\* puts two new dicts on the heap, the union and its null branch
WrapProps(heap, n, i, orig_required) ==
    IF i > Len(heap[n].props) THEN heap
    ELSE IF heap[n].props[i].name \notin orig_required
            /\ ~IsNullableAt(heap, heap[n].props[i].ref)
    THEN LET union == SchemaNode("", "", <<>>, {},
                                 << heap[n].props[i].ref, Len(heap) + 2 >>)
             null == SchemaNode("null", "", <<>>, {}, <<>>)
             grown == Append(Append(heap, union), null)
         IN  WrapProps([grown EXCEPT ![n].props[i].ref = Len(heap) + 1], n, i + 1,
                       orig_required)
    ELSE WrapProps(heap, n, i + 1, orig_required)

\* services/openai_service.py:106-113 on the dict at n
TransformAt(heap, n) ==
    LET wrapped == WrapProps(heap, n, 1, heap[n].required)
    IN  [ wrapped EXCEPT
            ![n].required = { wrapped[n].props[i].name : i \in 1..Len(wrapped[n].props) },
            ![n].additionalProperties = "false",
            ![n].transforms = @ + 1 ]

\* services/openai_service.py:121-123  what visit does to a dict it has not seen
EnterAt(heap, n) ==
    IF heap[n].type = "object" THEN TransformAt(heap, n) ELSE heap

\* services/openai_service.py:134-137
ScrubAt(heap, n) ==
    IF heap[n].format \notin {"", "date", "date-time", "email", "uuid"}
    THEN [heap EXCEPT ![n].format = ""]
    ELSE heap

Frame(n) == [node |-> n, next |-> 1]

GraphInit ==
    /\ PipelineIdle
    /\ ActivityIdle
    /\ JobsIdle
    /\ fn_in \in SchemaGraphs
    /\ fn_out = <<>>
    /\ fn_pc = "graph_input"

\* services/openai_service.py:116-128  visit(schema)
StartWalk ==
    /\ fn_pc = "graph_input"
    /\ fn_out' = [ heap |-> EnterAt(fn_in, 1), visited |-> {1}, stack |-> << Frame(1) >> ]
    /\ fn_pc' = "walking"
    /\ UNCHANGED fn_in
    /\ UNCHANGED << pipeline_vars, activity_vars, job_vars >>

\* the frame on top: return when its values are used up, else visit the next one
Top == fn_out.stack[Len(fn_out.stack)]

Returns == Top.next > Len(Children(fn_out.heap, Top.node))

NextChild == Children(fn_out.heap, Top.node)[Top.next]

Advanced == [fn_out.stack EXCEPT ![Len(fn_out.stack)].next = @ + 1]

Popped == SubSeq(fn_out.stack, 1, Len(fn_out.stack) - 1)

\* services/openai_service.py:117-127  one step of the strictness pass
WalkStep ==
    /\ fn_pc = "walking"
    /\ fn_out.stack # <<>>
    /\ IF Returns
       THEN fn_out' = [fn_out EXCEPT !.stack = Popped] /\ fn_pc' = fn_pc
       ELSE IF NextChild \in fn_out.visited
       THEN fn_out' = [fn_out EXCEPT !.stack = Advanced] /\ fn_pc' = fn_pc
       ELSE IF Len(fn_out.stack) >= RecursionLimit
       THEN fn_out' = fn_out /\ fn_pc' = "RecursionError"
       ELSE /\ fn_out' = [ heap |-> EnterAt(fn_out.heap, NextChild),
                           visited |-> fn_out.visited \cup {NextChild},
                           stack |-> Append(Advanced, Frame(NextChild)) ]
            /\ fn_pc' = fn_pc
    /\ UNCHANGED fn_in
    /\ UNCHANGED << pipeline_vars, activity_vars, job_vars >>

\* services/openai_service.py:131-143  the strictness pass returned; visit(schema)
\* of the second pass
StartScrub ==
    /\ fn_pc = "walking"
    /\ fn_out.stack = <<>>
    /\ fn_out' = [fn_out EXCEPT !.heap = ScrubAt(fn_out.heap, 1), !.stack = << Frame(1) >>]
    /\ fn_pc' = "scrubbing"
    /\ UNCHANGED fn_in
    /\ UNCHANGED << pipeline_vars, activity_vars, job_vars >>

\* services/openai_service.py:133-142  one step of the format pass: no visited set
ScrubStep ==
    /\ fn_pc = "scrubbing"
    /\ IF fn_out.stack = <<>>
       THEN fn_out' = fn_out /\ fn_pc' = "schema_built"
       ELSE IF Returns
       THEN fn_out' = [fn_out EXCEPT !.stack = Popped] /\ fn_pc' = fn_pc
       ELSE IF Len(fn_out.stack) >= RecursionLimit
       THEN fn_out' = fn_out /\ fn_pc' = "RecursionError"
       ELSE /\ fn_out' = [fn_out EXCEPT !.heap = ScrubAt(fn_out.heap, NextChild),
                                        !.stack = Append(Advanced, Frame(NextChild))]
            /\ fn_pc' = fn_pc
    /\ UNCHANGED fn_in
    /\ UNCHANGED << pipeline_vars, activity_vars, job_vars >>

GraphNext ==
    \/ StartWalk
    \/ WalkStep
    \/ StartScrub
    \/ ScrubStep

SpecGraph == GraphInit /\ [][GraphNext]_vars

\* a nullable union whose first branch is a nullable union again
WrappedTwice(heap) ==
    \E n \in 1..Len(heap) :
        /\ heap[n].type = "" /\ heap[n].anyOf # <<>>
        /\ heap[heap[n].anyOf[1]].type = "" /\ heap[heap[n].anyOf[1]].anyOf # <<>>

RECURSIVE ReachableFrom(_, _)
ReachableFrom(heap, seen) ==
    LET more == seen \cup UNION { { Children(heap, n)[i] : i \in 1..Len(Children(heap, n)) }
                                  : n \in seen }
    IN  IF more = seen THEN seen ELSE ReachableFrom(heap, more)

\* C26: the strictness pass and the format pass terminate on every schema graph,
\* shared and cyclic subschemas included, and transform each object node exactly
\* once, so that no property is wrapped in a nullable union twice.
C26_TerminatesOncePerNode ==
    /\ fn_pc # "RecursionError"
    /\ fn_pc \in {"walking", "scrubbing", "schema_built"} =>
         /\ \A n \in 1..Len(fn_out.heap) : fn_out.heap[n].transforms <= 1
         /\ ~WrappedTwice(fn_out.heap)
    /\ fn_pc \in {"scrubbing", "schema_built"} =>
         \A n \in ReachableFrom(fn_out.heap, {1}) :
             /\ fn_out.heap[n].type = "object" => fn_out.heap[n].transforms = 1
             /\ fn_out.heap[n].type = "object" => fn_out.heap[n].additionalProperties = "false"

(***************************************************************************)
(* The progress log, the worker slots and the completion of jobs           *)
(* (jobs.py:20-67).                                                        *)
(***************************************************************************)
C27_State ==
    \A j \in JobIds :
        /\ \A i \in 1..Len(jobs[j].steps) : jobs[j].steps[i].seq = i
        /\ jobs[j].steps # <<>> => jobs[j].steps[1].msg = "Job started"

C27_Step ==
    \A j \in JobIds :
        \/ jobs'[j].steps = jobs[j].steps
        \/ /\ Len(jobs'[j].steps) = Len(jobs[j].steps) + 1
           /\ SubSeq(jobs'[j].steps, 1, Len(jobs[j].steps)) = jobs[j].steps

\* C27: under every interleaving of the job threads a job's progress log carries
\* seq = 1, 2, ..., n in list order, begins with "Job started", and only ever
\* grows by one entry appended at its end.
C27_ProgressLogOrdered == [](C27_State) /\ [][C27_Step]_vars

\* two jobs have logged their whole run, one finished and one failed
C27_Witness ==
    /\ Len(jobs) = 2
    /\ Len(jobs[1].steps) = 2 + MaxProgress
    /\ jobs[1].steps[Len(jobs[1].steps)].msg = "Job finished"
    /\ Len(jobs[2].steps) >= 2
    /\ jobs[2].steps[Len(jobs[2].steps)].msg = "Error: 502: LLM generation failed"

\* the steps of the runner thread of job j (jobs.py:45-64); the target returns or
\* raises
RunnerStep(j) ==
    /\ j \in JobIds
    /\ \/ SetRunning(j)
       \/ LogStarted(j)
       \/ AcquirePool(j)
       \/ TargetReturns(j)
       \/ TargetRaises(j)
       \/ StoreResult(j)
       \/ SetDone(j)
       \/ LogFinished(j)
       \/ StoreError(j)
       \/ SetError(j)
       \/ LogError(j)
       \/ ReleasePool(j)

\* every started thread keeps being scheduled and every target call ends
SpecJobsFair == SpecJobs /\ \A j \in 1..MaxJobs : WF_vars(RunnerStep(j))

\* the runner is between self._pool.acquire() and self._pool.release()
HoldsSlot(j) ==
    runner_pc[j] \in { "target", "store_result", "set_done", "log_finished",
                       "store_error", "set_error", "log_error", "release" }

C28_Slots ==
    /\ pool = max_workers - Cardinality({ j \in JobIds : HoldsSlot(j) })
    /\ \A j \in JobIds : runner_pc[j] = "acquire" => lock # << j >>

C28_Release ==
    pool' > pool => /\ pool' = pool + 1
                    /\ \E j \in JobIds : runner_pc[j] = "release" /\ runner_pc'[j] = "exited"

\* C28: when every target call ends and the threads are scheduled fairly, every
\* created job reaches done or error and its thread runs to its end; a slot that
\* was acquired is given back exactly once, and no thread waits for a slot with the
\* job lock in its hand.
C28_EveryJobFinishes ==
    /\ [](C28_Slots)
    /\ [][C28_Release]_vars
    /\ \A j \in 1..MaxJobs :
         (j \in JobIds) ~> (/\ j \in JobIds
                             /\ jobs[j].status \in {"done", "error"}
                             /\ runner_pc[j] = "exited")

\* both jobs went through the single slot, one to done and one to error
C28_Witness ==
    /\ Len(jobs) = MaxJobs
    /\ \A j \in JobIds : runner_pc[j] = "exited"
    /\ \E j \in JobIds : jobs[j].status = "done"
    /\ \E j \in JobIds : jobs[j].status = "error"
    /\ pool = max_workers

\* C29: at most max_workers targets run at a time, a job has status running only
\* while its thread holds a worker slot, and so at most max_workers jobs have
\* status running.
C29_RunningWithinSlots ==
    /\ Cardinality({ j \in JobIds : runner_pc[j] = "target" }) <= max_workers
    /\ \A j \in JobIds : jobs[j].status = "running" => HoldsSlot(j)
    /\ Cardinality({ j \in JobIds : jobs[j].status = "running" }) <= max_workers

(***************************************************************************)
(* The two try blocks of generate_itinerary side by side: the strict one   *)
(* (services/openai_service.py:508-558) and the fallback one (578-616) are *)
(* given the same request, decoded response, climate map and rate          *)
(* provider, the strict one first.                                         *)
(***************************************************************************)
NotRun == [ran |-> FALSE, exc |-> "", it |-> NoItinerary]

\* what a try block ends with: the exception that leaves it, or the itinerary of
\* its `return itinerary`
PathResult(a, b, path) ==
    IF a.exc # "" THEN [ran |-> TRUE, exc |-> a.exc, it |-> NoItinerary]
    ELSE IF b.raised /\ BudgetExcept(path) # "returned"
    THEN [ran |-> TRUE, exc |-> "BudgetError", it |-> NoItinerary]
    ELSE [ran |-> TRUE, exc |-> "", it |-> << b.it >>]

NoBudget == [raised |-> FALSE, it |-> NoItinerary]

PathsInit ==
    /\ PipelineIdle
    /\ ActivityIdle
    /\ JobsIdle
    /\ \E r \in Requests, resp \in Responses, c \in ClimateMaps :
         \E e \in BudgetEnvironments(r) :
             fn_in = [request |-> r, response |-> resp, climate |-> c, env |-> e]
    /\ fn_out = [strict |-> NotRun, fallback |-> NotRun]
    /\ fn_pc = "paths"

\* services/openai_service.py:508-558
StrictPath ==
    /\ fn_pc = "paths"
    /\ ~fn_out.strict.ran
    /\ \E a \in { Attempt(fn_in.request, fn_in.response, fn_in.climate) } :
       \E b \in { IF a.exc = ""
                  THEN StrictBudget(fn_in.request, a.reconciled[1], fn_in.env.provider,
                                    fn_in.env.fault)
                  ELSE NoBudget } :
         fn_out' = [fn_out EXCEPT !.strict = PathResult(a, b, "strict")]
    /\ UNCHANGED << fn_in, fn_pc >>
    /\ UNCHANGED << pipeline_vars, activity_vars, job_vars >>

\* services/openai_service.py:578-616
FallbackPath ==
    /\ fn_pc = "paths"
    /\ fn_out.strict.ran
    /\ ~fn_out.fallback.ran
    /\ \E a \in { Attempt(fn_in.request, fn_in.response, fn_in.climate) } :
       \E b \in { IF a.exc = ""
                  THEN FallbackBudget(fn_in.request, a.reconciled[1], fn_in.env.provider,
                                      fn_in.env.fault)
                  ELSE NoBudget } :
         fn_out' = [fn_out EXCEPT !.fallback = PathResult(a, b, "fallback")]
    /\ UNCHANGED << fn_in, fn_pc >>
    /\ UNCHANGED << pipeline_vars, activity_vars, job_vars >>

PathsNext ==
    \/ StrictPath
    \/ FallbackPath

SpecPaths == PathsInit /\ [][PathsNext]_vars

\* C30: given the same request, decoded response, climate map and rates, the
\* strict path and the fallback path return the same itinerary (the generation
\* timestamp aside), and one returns exactly when the other does.
C30_PathsPostProcessAlike ==
    fn_out.strict.ran /\ fn_out.fallback.ran =>
        /\ fn_out.strict.exc = "" <=> fn_out.fallback.exc = ""
        /\ fn_out.strict.it = fn_out.fallback.it

\* both paths returned an itinerary that was padded and whose first day carries a
\* budget line
C30_Witness ==
    /\ fn_out.strict.ran /\ fn_out.fallback.ran
    /\ fn_out.strict.it # NoItinerary
    /\ fn_out.fallback.it # NoItinerary
    /\ Len(fn_out.fallback.it[1].daily_plan) > Len(fn_in.response.daily_plan.items)
    /\ fn_out.fallback.it[1].daily_plan[1].notes # <<>>
    /\ fn_out.fallback.it[1].daily_plan[1].notes[1] \in {BudgetNote([status |-> "UNDER"]),
                                                       BudgetNote([status |-> "OVER"])}

====
